---- MODULE Spec2Model ----
(***************************************************************************)
(* A model of the PR review bot: the unified-diff parser                   *)
(* (utils/diff_parser.py), the webhook classifier                          *)
(* (services/webhook_service.py), the comment command parser               *)
(* (utils/command_parser.py), the repository configuration                 *)
(* (core/repo_config.py), the model call (services/ai_service.py) and the  *)
(* review run (services/review_service.py).                                *)
(*                                                                         *)
(* A Python string is modelled as a sequence of pieces, each piece a       *)
(* non-empty TLA+ string; the Python string is the concatenation of the    *)
(* pieces.  The piece NL is the line separator.  A line is a TLA+ string.  *)
(***************************************************************************)
EXTENDS Integers, Sequences, FiniteSets, TLC

VARIABLES
    diff_content,   \* the argument of parse_diff (a text)
    parsed,         \* the list parse_diff returned
    reparsed,       \* what parsing an entry's diff text again returned
    pc_parse,       \* "input" | "parsed" | "reparsed"
    event,          \* the webhook event: its type tag and payload fields
    pc,             \* where handle_webhook_event stands
    calls,          \* the calls made to collaborators, in order
    pr_data,        \* handle_webhook_event's pr_data (get_pull_request's result)
    head_sha,       \* handle_webhook_event's head_sha
    command,        \* handle_webhook_event's command (parse_comment's result)
    config_fetch,   \* what get_repo_config's read of the config file came to
    repo_config,    \* the RepoConfig get_repo_config returned
    diff_fetch,     \* what review_pull_request's get_pr_diff came to
    parsed_files,   \* review_pull_request's parsed_files
    file_idx,       \* index of the file the review loop stands at
    comments_to_post,  \* review_pull_request's comments_to_post
    review_bodies,  \* the review_comment_body of each file reviewed, in order
    log,            \* what review_pull_request logged about its outcome
    request,        \* the POST /webhook request: headers and raw body
    response,       \* what github_webhook answered
    background_tasks,  \* the tasks github_webhook added, not yet started
    max_attempts,   \* retry_on_failure's max_attempts
    attempt,        \* retry_on_failure's wrapper: attempt
    last_exception, \* the wrapper's last_exception
    invocations,    \* what each call of the wrapped func came to, in order
    sleeps,         \* the time.sleep calls of the wrapper, in units of delay
    wrapper_result, \* what the wrapper came to: running, a return, a raise
    pr_files,       \* create_review_prompt's argument files
    prompt_pr_data, \* create_review_prompt's argument pr_data
    app_config,     \* app.py's config, as far as create_review_prompt reads it
    prompt_parts,   \* create_review_prompt's prompt_parts
    total_length,   \* create_review_prompt's total_length
    file_pos,       \* the file the loop of create_review_prompt stands at
    prompt_pc,      \* "idle" | "loop" | "joined"
    diffs_text      \* create_review_prompt's diffs_text

parseVars == <<diff_content, parsed, reparsed, pc_parse>>

hookVars ==
    <<event, pc, calls, pr_data, head_sha, command, config_fetch,
      repo_config>>

reviewVars ==
    <<diff_fetch, parsed_files, file_idx, comments_to_post, review_bodies,
      log>>

endpointVars == <<request, response, background_tasks>>

retryVars ==
    <<max_attempts, attempt, last_exception, invocations, sleeps,
      wrapper_result>>

promptVars ==
    <<pr_files, prompt_pr_data, app_config, prompt_parts, total_length,
      file_pos, prompt_pc, diffs_text>>

appVars == <<retryVars, promptVars>>

vars == <<parseVars, hookVars, reviewVars, endpointVars, appVars>>

-----------------------------------------------------------------------------
(* Bounds *)

MaxAttempts == 3

MaxFiles == 3

\* The longest diff, in lines, that the parser is run on.
MaxLines == 4

\* The comment bodies given to parse_comment on its own have at most MaxPieces
\* pieces.
MaxPieces == 5

-----------------------------------------------------------------------------
(* Texts and lines *)

NL == "\n"

SeqsUpTo(S, n) == UNION {[1..k -> S] : k \in 0..n}

RECURSIVE Concat(_)
\* The string a sequence of pieces stands for.
Concat(pieces) ==
    IF pieces = <<>> THEN "" ELSE Head(pieces) \o Concat(Tail(pieces))

\* Index of the first NL piece of a text, 0 if there is none.
FirstNL(text) ==
    IF \E k \in 1..Len(text) : text[k] = NL
    THEN CHOOSE k \in 1..Len(text) :
            text[k] = NL /\ \A j \in 1..(k - 1) : text[j] # NL
    ELSE 0

RECURSIVE LinesOf(_)
\* The lines of a text, each as its pieces: a final separator opens no
\* further (empty) line, and the empty text has no line.
LinesOf(text) ==
    IF text = <<>> THEN <<>>
    ELSE LET k == FirstNL(text) IN
         IF k = 0 THEN <<text>>
         ELSE <<SubSeq(text, 1, k - 1)>>
                  \o LinesOf(SubSeq(text, k + 1, Len(text)))

\* str.splitlines(): the lines of a text, without their separators.
splitlines(text) ==
    [k \in 1..Len(LinesOf(text)) |-> Concat(LinesOf(text)[k])]

\* The pieces of one line: none for the empty line.
LinePieces(line) == IF line = "" THEN <<>> ELSE <<line>>

RECURSIVE join(_)
\* "\n".join(lines)
join(ls) ==
    IF ls = <<>> THEN <<>>
    ELSE IF Len(ls) = 1 THEN LinePieces(ls[1])
    ELSE LinePieces(ls[1]) \o <<NL>> \o join(Tail(ls))

-----------------------------------------------------------------------------
(* The lines the diffs are made of *)

\* <<old, new>> of the file headers "diff --git a/<old> b/<new>" of the diffs
\* the parser is run on alone.
ParseFilePairs == {<<"old.py", "new.py">>, <<"b.js", "b.js">>}

\* The paths of the files of the pull requests under review, in pieces.
ReviewPathPieces ==
    { <<"src/", "docs", "/readme.md">>, <<"src/", "app.py">>,
      <<"README", ".md">> }

ReviewPaths == {Concat(p) : p \in ReviewPathPieces}

FilePairs == ParseFilePairs \cup {<<p, p>> : p \in ReviewPaths}

FileHeaderLine(old, new) == "diff --git a/" \o old \o " b/" \o new

FileHeaderLines == {FileHeaderLine(p[1], p[2]) : p \in FilePairs}

\* A line that starts with "diff --git" and is no file header.
StrayDiffGitLines == {"diff --git broken"}

\* The hunk headers "@@ -<src>[,<n>] +<tgt>[,<m>] @@<rest>": scount and tcount
\* are the optional line-count suffixes as written.
ParseHunkHeaders ==
    { [src |-> 1, scount |-> ",3", tgt |-> 0, tcount |-> ",0", rest |-> ""],
      [src |-> 2, scount |-> "",   tgt |-> 5, tcount |-> "",   rest |-> ""],
      [src |-> 0, scount |-> ",0", tgt |-> 1, tcount |-> "",
       rest |-> " def hello():"] }

HunkHeaders ==
    ParseHunkHeaders \cup
    { [src |-> 1, scount |-> ",1", tgt |-> 1, tcount |-> ",2", rest |-> ""] }

HunkHeaderLine(h) ==
    "@@ -" \o ToString(h.src) \o h.scount
           \o " +" \o ToString(h.tgt) \o h.tcount \o " @@" \o h.rest

HunkHeaderLines == {HunkHeaderLine(h) : h \in HunkHeaders}

\* Added, removed, empty and metadata lines.
ContentLines == {"+new", "-old", "", "index 0000000..a1b2c3d"}

\* The lines of the diffs the parser is run on alone.
DiffLines ==
    {FileHeaderLine(p[1], p[2]) : p \in ParseFilePairs}
        \cup StrayDiffGitLines
        \cup {HunkHeaderLine(h) : h \in ParseHunkHeaders}
        \cup ContentLines

-----------------------------------------------------------------------------
(* utils/diff_parser.py *)

\* file_header_pattern.match(line)
file_header_match(line) == line \in FileHeaderLines

\* file_match.group(2): the 'b/' path.
file_header_group2(line) ==
    (CHOOSE p \in FilePairs : FileHeaderLine(p[1], p[2]) = line)[2]

\* line.startswith("diff --git")
startswith_diff_git(line) ==
    line \in FileHeaderLines \cup StrayDiffGitLines

\* hunk_header_pattern.match(line)
hunk_header_match(line) == line \in HunkHeaderLines

\* The header a matching line was written from: its groups.
hunk_header_groups(line) ==
    CHOOSE h \in HunkHeaders : HunkHeaderLine(h) = line

\* A mutant of new_hunk: the start lines exchanged.
new_hunk_swapped(line) ==
    [ source_start_line |-> hunk_header_groups(line).tgt,
      target_start_line |-> hunk_header_groups(line).src,
      lines |-> <<>> ]

\* current_hunk, as built from hunk_match.
new_hunk(line) ==
    [ source_start_line |-> hunk_header_groups(line).src,
      target_start_line |-> hunk_header_groups(line).tgt,
      lines |-> <<>> ]

\* current_file, as built from file_match.
new_file(line) ==
    [file_path |-> file_header_group2(line), diff |-> <<>>, hunks |-> <<>>]

\* current_file is None.
NoFile == <<>>

\* files.append(current_file) under "if current_file:".
append_current(files, current_file) ==
    IF current_file # NoFile THEN Append(files, current_file[1]) ELSE files

\* The index after a file header line: "i += 1" in the branch and "i += 1"
\* at the end of the loop body.
after_file_header(i) == i + 1 + 1

\* The branch of a line that is no "diff --git" line, inside a file.
in_file_line(f, line) ==
    IF hunk_header_match(line)
    THEN [f EXCEPT !.hunks = Append(@, new_hunk(line)),
                   !.diff = Append(@, line)]
    ELSE IF f.hunks # <<>>
    THEN [f EXCEPT !.hunks[Len(f.hunks)].lines = Append(@, line),
                   !.diff = Append(@, line)]
    ELSE [f EXCEPT !.diff = Append(@, line)]

\* One pass of the while loop over state st = [files, current_file, i].
loop_body(lines, st) ==
    LET line == lines[st.i] IN
    IF file_header_match(line)
    THEN [ files |-> append_current(st.files, st.current_file),
           current_file |-> <<new_file(line)>>,
           i |-> after_file_header(st.i) ]
    ELSE IF st.current_file # NoFile /\ startswith_diff_git(line)
    THEN [ files |-> append_current(st.files, st.current_file),
           current_file |-> NoFile,
           i |-> st.i + 1 ]
    ELSE IF st.current_file # NoFile
    THEN [ files |-> st.files,
           current_file |-> <<in_file_line(st.current_file[1], line)>>,
           i |-> st.i + 1 ]
    ELSE [st EXCEPT !.i = st.i + 1]

RECURSIVE while_loop(_, _)
while_loop(lines, st) ==
    IF st.i <= Len(lines) THEN while_loop(lines, loop_body(lines, st)) ELSE st

\* A mutant of join_diff: hunk headers are left out of the diff text.
join_diff_no_headers(f) ==
    IF f.hunks = <<>> THEN [f EXCEPT !.diff = <<>>]
    ELSE [f EXCEPT !.diff =
            join(SelectSeq(f.diff, LAMBDA l : ~hunk_header_match(l)))]

\* "Join diff lines for each file".
join_diff(f) ==
    IF f.hunks = <<>> THEN [f EXCEPT !.diff = <<>>]
    ELSE [f EXCEPT !.diff = join(f.diff)]

parse_diff(text) ==
    LET lines == splitlines(text)
        st == while_loop(lines,
                  [files |-> <<>>, current_file |-> NoFile, i |-> 1])
        files == append_current(st.files, st.current_file)
    IN  [k \in 1..Len(files) |-> join_diff(files[k])]

-----------------------------------------------------------------------------
(* utils/command_parser.py *)

BOT_MENTION == "@pr-review-bot"

SP == " "

\* None, of an Optional result.
None == <<>>

\* A variable that no assignment has reached.
Unassigned == <<"unassigned">>

IsSpace(piece) == piece \in {SP, NL}

RECURSIVE lstrip(_)
lstrip(text) ==
    IF text # <<>> /\ IsSpace(Head(text)) THEN lstrip(Tail(text)) ELSE text

RECURSIVE rstrip(_)
rstrip(text) ==
    IF text # <<>> /\ IsSpace(text[Len(text)])
    THEN rstrip(SubSeq(text, 1, Len(text) - 1))
    ELSE text

\* str.strip()
strip(text) == rstrip(lstrip(text))

\* BOT_MENTION in text
has_mention(text) == \E k \in 1..Len(text) : text[k] = BOT_MENTION

\* text.find(BOT_MENTION), counted in pieces.
find_mention(text) ==
    CHOOSE k \in 1..Len(text) :
        text[k] = BOT_MENTION /\ \A j \in 1..(k - 1) : text[j] # BOT_MENTION

\* The length of the first run of pieces of text that are no space.
WordLen(text) ==
    IF \E k \in 1..Len(text) : IsSpace(text[k])
    THEN (CHOOSE k \in 1..Len(text) :
             IsSpace(text[k]) /\ \A j \in 1..(k - 1) : ~IsSpace(text[j])) - 1
    ELSE Len(text)

RECURSIVE split(_)
\* str.split(): the whitespace-separated words of a text.
split(text) ==
    LET t == lstrip(text) IN
    IF t = <<>> THEN <<>>
    ELSE <<Concat(SubSeq(t, 1, WordLen(t)))>>
             \o split(SubSeq(t, WordLen(t) + 1, Len(t)))

RECURSIVE join_spaces(_)
\* " ".join(parts), as a string.
join_spaces(parts) ==
    IF parts = <<>> THEN ""
    ELSE IF Len(parts) = 1 THEN parts[1]
    ELSE parts[1] \o SP \o join_spaces(Tail(parts))

\* The words after the first mention of a line.
after_mention(line) ==
    split(strip(SubSeq(line, find_mention(line) + 1, Len(line))))

\* A mutant of first_command: only the first line with a mention is looked at.
first_command_first_mention(lines) ==
    IF \A k \in 1..Len(lines) : ~has_mention(lines[k]) THEN None
    ELSE LET k == CHOOSE k \in 1..Len(lines) :
                     /\ has_mention(lines[k])
                     /\ \A j \in 1..(k - 1) : ~has_mention(lines[j])
         IN  IF Len(after_mention(lines[k])) > 0
             THEN <<after_mention(lines[k])[1],
                    join_spaces(Tail(after_mention(lines[k])))>>
             ELSE None

RECURSIVE first_command(_)
\* The for loop over the lines: the command of the first line whose mention
\* is followed by a word.
first_command(lines) ==
    IF lines = <<>> THEN None
    ELSE IF has_mention(Head(lines)) /\ Len(after_mention(Head(lines))) > 0
    THEN <<after_mention(Head(lines))[1],
           join_spaces(Tail(after_mention(Head(lines))))>>
    ELSE first_command(Tail(lines))

\* parse_comment(comment_body): None or <<command, args>>.
parse_comment(comment_body) ==
    IF comment_body = <<>> \/ ~has_mention(comment_body) THEN None
    ELSE first_command(LinesOf(strip(comment_body)))

-----------------------------------------------------------------------------
(* core/repo_config.py *)

CONFIG_FILE_PATH == ".pr-review-bot.yml"

\* RepoConfig(): every field at its default.
DefaultRepoConfig ==
    [ exclude_paths |-> <<>>, include_paths |-> <<>>,
      review_language |-> "english", custom_prompt |-> None ]

\* The placeholders review prompts are formatted with, and one they are not.
KnownPlaceholders == {"{filename}", "{file_diff}", "{output_language}"}

UnknownPlaceholders == {"{pr_title}"}

\* A replacement field that indexes its value: filename[INDEX].
INDEX == 12

IndexPlaceholders == {"{filename[12]}"}

\* The RepoConfig values a well-formed config file is read into.
FileRepoConfigs ==
    { [DefaultRepoConfig EXCEPT !.exclude_paths = <<"src/docs">>],
      [DefaultRepoConfig EXCEPT !.include_paths = <<"src/">>],
      [DefaultRepoConfig EXCEPT !.exclude_paths = <<"src/docs">>,
                                !.include_paths = <<"src/">>,
                                !.review_language = "chinese"],
      [DefaultRepoConfig EXCEPT !.custom_prompt =
          << <<"Review ", "{filename}", " in ", "{output_language}", ":",
               NL, "{file_diff}">> >>],
      [DefaultRepoConfig EXCEPT !.custom_prompt =
          << <<"Review ", "{pr_title}", ": ", "{file_diff}">> >>],
      [DefaultRepoConfig EXCEPT !.custom_prompt =
          << <<"Review ", "{filename[12]}", ": ", "{file_diff}">> >>],
      [DefaultRepoConfig EXCEPT !.custom_prompt = << <<>> >>] }

\* What get_file_content and the reading of its result come to: the file is
\* absent (None), the fetch raises, the content is empty, is no YAML, is YAML
\* for nothing (None), is YAML for a value that is no mapping, is a mapping
\* that RepoConfig rejects, or is a config file holding the given values.
ConfigFetches ==
    { [kind |-> k, config |-> DefaultRepoConfig] :
        k \in {"absent", "fetch_error", "empty", "invalid_yaml", "empty_yaml",
               "not_mapping", "schema_mismatch"} }
    \cup { [kind |-> "valid", config |-> c] : c \in FileRepoConfigs }

\* An exception leaves get_repo_config.
Raised == [raised |-> TRUE]

\* A mutant of repo_config_of: there is no except clause.
repo_config_of_uncaught(fetch) ==
    IF fetch.kind \in {"fetch_error", "invalid_yaml", "not_mapping",
                       "schema_mismatch"}
    THEN Raised
    ELSE IF fetch.kind = "valid" THEN fetch.config ELSE DefaultRepoConfig

\* get_repo_config has not been called.
NoFetch == [kind |-> "none", config |-> DefaultRepoConfig]

\* get_repo_config's result for a fetch.
repo_config_of(fetch) ==
    CASE fetch.kind = "fetch_error" -> DefaultRepoConfig
           \* get_file_content raises: except, then return RepoConfig()
      [] fetch.kind \in {"absent", "empty"} -> DefaultRepoConfig
           \* "if config_content" is false
      [] fetch.kind = "invalid_yaml" -> DefaultRepoConfig
           \* yaml.safe_load raises: except
      [] fetch.kind = "empty_yaml" -> DefaultRepoConfig
           \* "if config_dict" is false
      [] fetch.kind \in {"not_mapping", "schema_mismatch"} -> DefaultRepoConfig
           \* RepoConfig(**config_dict) raises: except
      [] fetch.kind = "valid" -> fetch.config

-----------------------------------------------------------------------------
(* The webhook events *)

REPO_FULL_NAME == "owner/repo"

\* The comment bodies of the issue_comment events.
CommentBodies ==
    { <<BOT_MENTION, SP, "re-review">>,
      <<"This", SP, "is", SP, "a", SP, "regular", SP, "comment.">>,
      <<BOT_MENTION>>,
      <<BOT_MENTION, SP, "approve">>,
      <<"hello", SP, BOT_MENTION, SP, "re-review", SP, "now">>,
      <<BOT_MENTION, NL, BOT_MENTION, SP, "re-review">>,
      <<BOT_MENTION, SP, "approve", NL, BOT_MENTION, SP, "re-review">>,
      <<"x", BOT_MENTION, SP, "re-review">>,
      <<BOT_MENTION, "X", SP, "re-review">>,
      <<"re-review", SP, BOT_MENTION>>,
      <<>> }

\* payload["action"], payload["pull_request"]["draft"], ["number"] and
\* ["head"]["sha"] of a pull_request event.
PullRequestEvents ==
    { [ event_type |-> "pull_request", action |-> a, draft |-> d,
        issue_is_pr |-> FALSE, body |-> <<>>, number |-> 1, sha |-> "abc" ] :
        a \in {"opened", "synchronize", "reopened", "closed", "edited"},
        d \in BOOLEAN }

\* payload["action"], "pull_request" in payload["issue"], ["issue"]["number"]
\* and ["comment"]["body"] of an issue_comment event.
IssueCommentEvents ==
    { [ event_type |-> "issue_comment", action |-> a, draft |-> FALSE,
        issue_is_pr |-> i, body |-> b, number |-> 1, sha |-> "" ] :
        a \in {"created", "edited"}, i \in BOOLEAN, b \in CommentBodies }

OtherEvents ==
    { [ event_type |-> t, action |-> "created", draft |-> FALSE,
        issue_is_pr |-> FALSE, body |-> <<>>, number |-> 1, sha |-> "" ] :
        t \in {"push", "pull_request_review"} }

Events == PullRequestEvents \cup IssueCommentEvents \cup OtherEvents

\* pr_data["head"]["sha"] as get_pull_request may return it.
LookupShas == {"abc", "def"}

\* pr_data before get_pull_request has returned.
NoPrData == [unassigned |-> TRUE]

\* What get_pull_request may return: the pull request with the commits of its
\* head and of its base.
PullRequests ==
    { [head |-> [sha |-> s], base |-> [sha |-> "base0"]] : s \in LookupShas }

\* A mutant of lookup_head_sha: the commit of the base branch.
lookup_base_sha(pr) == pr.base.sha

\* head_sha = pr_data["head"]["sha"]
lookup_head_sha(pr) == pr.head.sha

-----------------------------------------------------------------------------
(* services/webhook_service.py *)

Call(fn, args) == [fn |-> fn, args |-> args]

\* A mutant of accepts_pull_request: "reopened" is not listed.
accepts_pull_request_no_reopened(e) ==
    /\ e.event_type = "pull_request"
    /\ e.action \in {"opened", "synchronize"}

\* The pull_request branch is taken through to the review.
accepts_pull_request(e) ==
    /\ e.event_type = "pull_request"
    /\ e.action \in {"opened", "synchronize", "reopened"}

\* The issue_comment branch is taken as far as "command = parse_comment(...)".
parses_comment(e) ==
    /\ e.event_type = "issue_comment"
    /\ e.action = "created" /\ e.issue_is_pr

\* A mutant of reaches_command: a comment on a plain issue passes.
reaches_command_any_issue(e) ==
    /\ e.event_type = "issue_comment"
    /\ e.action = "created"
    /\ parse_comment(e.body) # None

\* The issue_comment branch is taken as far as "cmd, args = command".
reaches_command(e) ==
    /\ e.event_type = "issue_comment"
    /\ e.action = "created" /\ e.issue_is_pr
    /\ parse_comment(e.body) # None

\* A mutant of is_re_review: every command starts a review.
is_re_review_any(cmd_args) == cmd_args # None

\* cmd == "re-review"
is_re_review(cmd_args) == cmd_args[1] = "re-review"

\* The issue_comment branch is taken through to the lookup and the review.
accepts_comment(e) ==
    reaches_command(e) /\ is_re_review(parse_comment(e.body))

\* handle_webhook_event, pull_request branch, up to "await get_repo_config".
HandlePullRequest ==
    /\ pc = "handle_webhook_event"
    /\ accepts_pull_request(event)
    /\ head_sha' = event.sha
    /\ pc' = "get_repo_config"
    /\ UNCHANGED <<event, pr_data, command, config_fetch, calls, repo_config,
                   reviewVars, parseVars,
                   endpointVars, appVars>>

\* handle_webhook_event, issue_comment branch, up to "await get_pull_request".
HandleIssueComment ==
    /\ pc = "handle_webhook_event"
    /\ accepts_comment(event)
    /\ command' = parse_comment(event.body)
    /\ pc' = "get_pull_request"
    /\ UNCHANGED <<event, pr_data, config_fetch, calls, head_sha, repo_config,
                   reviewVars, parseVars,
                   endpointVars, appVars>>

\* handle_webhook_event returns without a call: another event type or action,
\* a comment on a plain issue, no command, or another command.
IgnoreEvent ==
    /\ pc = "handle_webhook_event"
    /\ ~accepts_pull_request(event)
    /\ ~accepts_comment(event)
    /\ command' = IF parses_comment(event) THEN parse_comment(event.body)
                  ELSE command
    /\ pc' = "returned"
    /\ UNCHANGED <<event, pr_data, config_fetch, calls, head_sha, repo_config,
                   reviewVars, parseVars,
                   endpointVars, appVars>>

\* pr_data = await get_pull_request(repo_full_name, pr_number): it returns the
\* pull request, or raises and handle_webhook_event ends with the exception.
GetPullRequest ==
    /\ pc = "get_pull_request"
    /\ calls' = Append(calls,
                    Call("get_pull_request", <<REPO_FULL_NAME, event.number>>))
    /\ \/ \E pr \in PullRequests :
             /\ pr_data' = pr
             /\ head_sha' = lookup_head_sha(pr)
             /\ pc' = "get_repo_config"
       \/ /\ pc' = "raised"
          /\ UNCHANGED <<pr_data, head_sha>>
    /\ UNCHANGED <<event, command, config_fetch, repo_config, reviewVars, parseVars,
                   endpointVars, appVars>>

\* repo_config = await get_repo_config(repo_full_name, head_sha), which reads
\* CONFIG_FILE_PATH at head_sha; an exception that left it would end
\* handle_webhook_event.
GetRepoConfig ==
    /\ pc = "get_repo_config"
    /\ calls' = calls \o
          << Call("get_repo_config", <<REPO_FULL_NAME, head_sha>>),
             Call("get_file_content",
                  <<REPO_FULL_NAME, CONFIG_FILE_PATH, head_sha>>) >>
    /\ \E fetch \in ConfigFetches :
          /\ config_fetch' = fetch
          /\ IF repo_config_of(fetch) = Raised
             THEN pc' = "raised" /\ UNCHANGED repo_config
             ELSE /\ repo_config' = repo_config_of(fetch)
                  /\ pc' = "review_pull_request"
    /\ UNCHANGED <<event, pr_data, command, head_sha, reviewVars, parseVars,
                   endpointVars, appVars>>

-----------------------------------------------------------------------------
(* The pull request diffs under review *)

README == "README.md"

APP == "src/app.py"

DOCS == "src/docs/readme.md"

\* The lines of the review diffs that start with "+" and with "-".
PlusLines ==
    {"+new", "+new line"} \cup {"+++ b/" \o p : p \in ReviewPaths}

MinusLines ==
    {"-old", "-old line"} \cup {"--- a/" \o p : p \in ReviewPaths}

\* What get_pr_diff may return: one modified file; two modified files; a
\* renamed file and a deleted file; a file whose hunk has no changed line;
\* such a file and a modified file; two files of two hunks each, the first
\* with no changed line in its first hunk.
ReviewDiffs ==
    { join(<< FileHeaderLine(APP, APP), "index 0000000..a1b2c3d",
              "--- a/" \o APP, "+++ b/" \o APP,
              "@@ -1,1 +1,2 @@", "-old line", "+new line" >>),
      join(<< FileHeaderLine(DOCS, DOCS), "index 0000000..a1b2c3d",
              "@@ -2 +5 @@", " ctx", "+new",
              FileHeaderLine(APP, APP), "index 0000000..a1b2c3d",
              "@@ -1,1 +1,2 @@", "-old line", "+new line" >>),
      join(<< FileHeaderLine(README, README), "similarity index 100%",
              "rename from OLD.md",
              FileHeaderLine(APP, APP), "deleted file mode 100644",
              "@@ -1,3 +0,0 @@", "-old" >>),
      join(<< FileHeaderLine(README, README), "index 0000000..a1b2c3d",
              "@@ -2 +5 @@", " ctx", "" >>) \o <<NL>>,
      join(<< FileHeaderLine(README, README), "index 0000000..a1b2c3d",
              "@@ -2 +5 @@", " ctx",
              FileHeaderLine(DOCS, DOCS), "index 0000000..a1b2c3d",
              "@@ -2 +5 @@", " ctx", "+new" >>),
      join(<< FileHeaderLine(README, README), "index 0000000..a1b2c3d",
              "@@ -1,1 +1,2 @@", " ctx", "@@ -2 +5 @@", "-old", "+new",
              FileHeaderLine(APP, APP), "index 0000000..a1b2c3d",
              "@@ -1,1 +1,2 @@", " ctx", "+new",
              "@@ -2 +5 @@", "-old line" >>) }

-----------------------------------------------------------------------------
(* services/ai_service.py *)

NO_ISSUES == "No issues found."

FENCE == "[fence]"

\* response.text as the model may return it.
ModelTexts == {NO_ISSUES, "This is a review comment.", ""}

\* The default prompt of generate_review_comment; FENCE stands for the three
\* backquotes of its code fences.
default_prompt(filename, file_diff, output_language) ==
    << "You are an AI assistant specialized in reviewing code. \n"
       \o "Review the following code changes for the file '",
       filename,
       "'. \nProvide concise and actionable feedback. Focus on potential "
       \o "bugs, performance issues, security vulnerabilities, and best "
       \o "practices. \nIf there are no issues, state 'No issues found.'."
       \o "\n\nOutput language: ",
       output_language,
       "\n\nCode Diff for ", filename, ":\n" \o FENCE \o "diff\n" >>
    \o file_diff \o << "\n" \o FENCE \o "\n" >>

\* The characters of a path under review.
PathChars(path) ==
    CASE path = README -> <<"R", "E", "A", "D", "M", "E", ".", "m", "d">>
      [] path = APP -> <<"s", "r", "c", "/", "a", "p", "p", ".", "p", "y">>
      [] path = DOCS -> <<"s", "r", "c", "/", "d", "o", "c", "s", "/",
                          "r", "e", "a", "d", "m", "e", ".", "m", "d">>

\* A mutant of format_raises: str.format never raises.
format_raises_never(template, filename) == FALSE

\* custom_prompt.format(...) raises: a placeholder it is given no value for
\* (KeyError), or an index behind the end of the filename (IndexError).
format_raises(template, filename) ==
    \E k \in 1..Len(template) :
        \/ template[k] \in UnknownPlaceholders
        \/ /\ template[k] \in IndexPlaceholders
           /\ Len(PathChars(filename)) <= INDEX

RECURSIVE format(_, _, _, _)
\* custom_prompt.format(filename=, file_diff=, output_language=), where it
\* does not raise.
format(template, filename, file_diff, output_language) ==
    IF template = <<>> THEN <<>>
    ELSE (CASE Head(template) = "{filename}" -> <<filename>>
            [] Head(template) = "{file_diff}" -> file_diff
            [] Head(template) = "{output_language}" -> <<output_language>>
            [] Head(template) \in IndexPlaceholders ->
                  IF Len(PathChars(filename)) > INDEX
                  THEN <<PathChars(filename)[INDEX + 1]>>
                  ELSE <<>>
            [] OTHER -> <<Head(template)>>)
         \o format(Tail(template), filename, file_diff, output_language)

\* "if custom_prompt:": the prompt is given and is not the empty string.
has_custom_prompt(custom_prompt) ==
    custom_prompt # None /\ custom_prompt[1] # <<>>

\* prompt, as generate_review_comment assembles it.
review_prompt(file_diff, filename, custom_prompt, output_language) ==
    IF has_custom_prompt(custom_prompt)
    THEN format(custom_prompt[1], filename, file_diff, output_language)
    ELSE default_prompt(filename, file_diff, output_language)

\* What generate_review_comment returns when the model call raises.
ai_review_failed(filename) ==
    "[AI Review Failed for " \o filename \o ": " \o "model error" \o "]"

\* What model.generate_content_async comes to: a text, or an exception.
ModelOutcomes ==
    {[ok |-> TRUE, text |-> t] : t \in ModelTexts}
        \cup {[ok |-> FALSE, text |-> ""]}

\* generate_review_comment's return value for an outcome of the model call.
review_comment_of(outcome, filename) ==
    IF outcome.ok THEN outcome.text ELSE ai_review_failed(filename)

-----------------------------------------------------------------------------
(* services/review_service.py *)

\* The strings that may follow a path prefix.
PathSuffixes ==
    UNION { {Concat(SubSeq(p, k, Len(p))) : k \in 1..(Len(p) + 1)} :
              p \in ReviewPathPieces }

\* file_path.startswith(prefix)
path_startswith(file_path, prefix) ==
    \E rest \in PathSuffixes : file_path = prefix \o rest

\* A mutant of is_excluded: a path that include_paths lists is not excluded.
is_excluded_unless_included(config, file_path) ==
    /\ \E k \in 1..Len(config.exclude_paths) :
          path_startswith(file_path, config.exclude_paths[k])
    /\ ~\E k \in 1..Len(config.include_paths) :
           path_startswith(file_path, config.include_paths[k])

\* config.exclude_paths and any(file_path.startswith(p) for p in ...)
is_excluded(config, file_path) ==
    /\ config.exclude_paths # <<>>
    /\ \E k \in 1..Len(config.exclude_paths) :
          path_startswith(file_path, config.exclude_paths[k])

\* config.include_paths and not any(file_path.startswith(p) for p in ...)
is_not_included(config, file_path) ==
    /\ config.include_paths # <<>>
    /\ ~\E k \in 1..Len(config.include_paths) :
           path_startswith(file_path, config.include_paths[k])

\* line_content.startswith("+") or line_content.startswith("-")
is_changed_line(line_content) == line_content \in PlusLines \cup MinusLines

has_changed_line(hunk) ==
    \E k \in 1..Len(hunk.lines) : is_changed_line(hunk.lines[k])

\* A mutant of first_changed_idx: the last changed line is taken.
last_changed_idx(hunk) ==
    (CHOOSE k \in 1..Len(hunk.lines) :
        /\ is_changed_line(hunk.lines[k])
        /\ \A j \in (k + 1)..Len(hunk.lines) :
              ~is_changed_line(hunk.lines[j])) - 1

\* line_idx, counted from 0 as enumerate does, of the first changed line.
first_changed_idx(hunk) ==
    (CHOOSE k \in 1..Len(hunk.lines) :
        /\ is_changed_line(hunk.lines[k])
        /\ \A j \in 1..(k - 1) : ~is_changed_line(hunk.lines[j])) - 1

\* position = hunk["target_start_line"] + line_idx
position_at(hunk, line_idx) == hunk.target_start_line + line_idx

\* position after the two loops: None, or <<position>> of the first changed
\* line of the first hunk that has one.
find_position(hunks) ==
    IF \E n \in 1..Len(hunks) : has_changed_line(hunks[n])
    THEN LET n == CHOOSE n \in 1..Len(hunks) :
                    /\ has_changed_line(hunks[n])
                    /\ \A m \in 1..(n - 1) : ~has_changed_line(hunks[m])
         IN  <<position_at(hunks[n], first_changed_idx(hunks[n]))>>
    ELSE None

\* A mutant of is_posted: the text is not compared with "No issues found.".
is_posted_any_text(review_comment_body, position) ==
    /\ review_comment_body # ""
    /\ position # None

\* The condition under which a comment is appended to comments_to_post.
is_posted(review_comment_body, position) ==
    /\ review_comment_body # ""
    /\ review_comment_body # NO_ISSUES
    /\ position # None

\* comments_to_post after the file: its comment appended, or unchanged.
collect(comments, file_change, review_comment_body) ==
    LET position == find_position(file_change.hunks) IN
    IF is_posted(review_comment_body, position)
    THEN Append(comments, [ path |-> file_change.file_path,
                            position |-> position[1],
                            body |-> review_comment_body ])
    ELSE comments

\* get_pr_diff has not been called.
NoDiffFetch == [kind |-> "none", text |-> <<>>]

\* What get_pr_diff comes to: it raises, or returns a text, the empty one
\* included.
DiffFetches ==
    { [kind |-> "raised", text |-> <<>>] }
        \cup { [kind |-> "returned", text |-> t] : t \in ReviewDiffs \cup {<<>>} }

\* A mutant of diff_outcome: a failed fetch is taken for an empty diff.
diff_outcome_error_skipped(fetch) ==
    IF fetch.kind = "raised" \/ fetch.text = <<>> THEN "skipped" ELSE "parse"

\* A mutant of diff_outcome: an empty diff is parsed like any other.
diff_outcome_parse_empty(fetch) ==
    IF fetch.kind = "raised" THEN "error" ELSE "parse"

\* Where review_pull_request goes behind get_pr_diff: to its except clause,
\* to the return of "if not pr_diff", or on to parse_diff.
diff_outcome(fetch) ==
    IF fetch.kind = "raised" THEN "error"
    ELSE IF fetch.text = <<>> THEN "skipped"
    ELSE "parse"

\* review_pull_request up to the file loop: get_pr_diff raises, returns an
\* empty diff, or returns a diff that is then parsed.
ReviewPullRequest ==
    /\ pc = "review_pull_request"
    /\ \E fetch \in DiffFetches :
          /\ diff_fetch' = fetch
          /\ \/ /\ diff_outcome(fetch) = "error"
                /\ calls' = calls \o
                      << Call("review_pull_request",
                              <<REPO_FULL_NAME, event.number, head_sha,
                                repo_config>>),
                         Call("get_pr_diff", <<REPO_FULL_NAME, event.number>>) >>
                /\ log' = Append(log, "Error during PR review")
                /\ pc' = "returned"
                /\ UNCHANGED <<parsed_files, file_idx>>
             \/ /\ diff_outcome(fetch) = "skipped"
                /\ calls' = calls \o
                      << Call("review_pull_request",
                              <<REPO_FULL_NAME, event.number, head_sha,
                                repo_config>>),
                         Call("get_pr_diff", <<REPO_FULL_NAME, event.number>>) >>
                /\ log' = Append(log, "No diff found. Skipping review.")
                /\ pc' = "returned"
                /\ UNCHANGED <<parsed_files, file_idx>>
             \/ /\ diff_outcome(fetch) = "parse"
                /\ calls' = calls \o
                      << Call("review_pull_request",
                              <<REPO_FULL_NAME, event.number, head_sha,
                                repo_config>>),
                         Call("get_pr_diff", <<REPO_FULL_NAME, event.number>>),
                         Call("parse_diff", <<fetch.text>>) >>
                /\ parsed_files' = parse_diff(fetch.text)
                /\ file_idx' = 1
                /\ pc' = "review_files"
                /\ UNCHANGED log
    /\ UNCHANGED <<event, pr_data, command, config_fetch, head_sha, repo_config,
                   comments_to_post, review_bodies, parseVars,
                   endpointVars, appVars>>

InFileLoop == pc = "review_files" /\ file_idx <= Len(parsed_files)

\* The filters skip the file: "continue".
SkipFile ==
    /\ InFileLoop
    /\ \/ is_excluded(repo_config, parsed_files[file_idx].file_path)
       \/ is_not_included(repo_config, parsed_files[file_idx].file_path)
    /\ file_idx' = file_idx + 1
    /\ UNCHANGED <<hookVars, diff_fetch, parsed_files, comments_to_post,
                   review_bodies, log, parseVars,
                   endpointVars, appVars>>

GenerateCall(f) ==
    Call("generate_review_comment",
         <<f.diff, f.file_path, repo_config.custom_prompt,
           repo_config.review_language>>)

\* generate_review_comment raises while it formats the custom prompt; the
\* exception ends the loop in review_pull_request's except clause, and what
\* was collected for the files before is not posted.
PromptRaises ==
    /\ InFileLoop
    /\ ~is_excluded(repo_config, parsed_files[file_idx].file_path)
    /\ ~is_not_included(repo_config, parsed_files[file_idx].file_path)
    /\ has_custom_prompt(repo_config.custom_prompt)
    /\ format_raises(repo_config.custom_prompt[1],
                     parsed_files[file_idx].file_path)
    /\ calls' = Append(calls, GenerateCall(parsed_files[file_idx]))
    /\ log' = Append(log, "Error during PR review")
    /\ pc' = "returned"
    /\ UNCHANGED <<event, pr_data, command, config_fetch, head_sha, repo_config,
                   diff_fetch, parsed_files, file_idx,
                   comments_to_post,
                   review_bodies, parseVars,
                   endpointVars, appVars>>

\* One pass of the file loop for a file the filters let through: the model
\* is called, and the comment is collected or not.
ReviewFile ==
    /\ InFileLoop
    /\ ~is_excluded(repo_config, parsed_files[file_idx].file_path)
    /\ ~is_not_included(repo_config, parsed_files[file_idx].file_path)
    /\ has_custom_prompt(repo_config.custom_prompt)
          => ~format_raises(repo_config.custom_prompt[1],
                            parsed_files[file_idx].file_path)
    /\ LET f == parsed_files[file_idx] IN
       \E outcome \in ModelOutcomes :
          /\ calls' = calls \o
                << GenerateCall(f),
                   Call("generate_content_async",
                        <<review_prompt(f.diff, f.file_path,
                                        repo_config.custom_prompt,
                                        repo_config.review_language)>>) >>
          /\ comments_to_post' =
                collect(comments_to_post, f,
                        review_comment_of(outcome, f.file_path))
          /\ review_bodies' =
                Append(review_bodies,
                       [ path |-> f.file_path,
                         body |-> review_comment_of(outcome, f.file_path) ])
    /\ file_idx' = file_idx + 1
    /\ UNCHANGED <<event, pr_data, command, config_fetch, pc, head_sha,
                   repo_config, diff_fetch, parsed_files, log,
                   parseVars,
                   endpointVars, appVars>>

AfterFileLoop == pc = "review_files" /\ file_idx > Len(parsed_files)

\* After the loop with comments: post_review is awaited; it returns or raises.
PostReview ==
    /\ AfterFileLoop
    /\ comments_to_post # <<>>
    /\ calls' = Append(calls,
          Call("post_review",
               <<REPO_FULL_NAME, event.number, head_sha, comments_to_post>>))
    /\ \/ log' = Append(log, "Review posted successfully.")
       \/ log' = Append(log, "Error during PR review")
    /\ pc' = "returned"
    /\ UNCHANGED <<event, pr_data, command, config_fetch, head_sha, repo_config,
                   diff_fetch, parsed_files, file_idx,
                   comments_to_post,
                   review_bodies, parseVars,
                   endpointVars, appVars>>

\* After the loop without comments.
NoCommentsToPost ==
    /\ AfterFileLoop
    /\ comments_to_post = <<>>
    /\ log' = Append(log, "No comments to post")
    /\ pc' = "returned"
    /\ UNCHANGED <<event, pr_data, command, config_fetch, calls, head_sha,
                   repo_config, diff_fetch, parsed_files,
                   file_idx, comments_to_post,
                   review_bodies, parseVars,
                   endpointVars, appVars>>

-----------------------------------------------------------------------------
(* A webhook event handled from its arrival to the end of the review *)

NotReparsed == [entry |-> 0, how |-> "none", result |-> <<>>]

ParserIdle ==
    /\ diff_content = <<>>
    /\ parsed = <<>>
    /\ reparsed = NotReparsed
    /\ pc_parse = "idle"

HandlerIdle ==
    /\ calls = <<>>
    /\ pr_data = NoPrData
    /\ head_sha = ""
    /\ command = Unassigned
    /\ config_fetch = NoFetch
    /\ repo_config = DefaultRepoConfig
    /\ diff_fetch = NoDiffFetch
    /\ parsed_files = <<>>
    /\ file_idx = 0
    /\ comments_to_post = <<>>
    /\ review_bodies = <<>>
    /\ log = <<>>

\* No request has been received.
NoRequest == [signature |-> <<>>, event_type |-> "", body |-> ""]

NoResponse == [status_code |-> 0, content |-> ""]

EndpointIdle ==
    /\ request = NoRequest
    /\ response = NoResponse
    /\ background_tasks = <<>>

\* The wrapper has not returned.
Running == [kind |-> "running", value |-> ""]

RetryIdle ==
    /\ max_attempts = 0
    /\ attempt = 0
    /\ last_exception = None
    /\ invocations = <<>>
    /\ sleeps = <<>>
    /\ wrapper_result = Running

PromptIdle ==
    /\ pr_files = <<>>
    /\ prompt_pr_data = [has_head_and_repo |-> FALSE]
    /\ app_config = [MAX_FILES_PER_REVIEW |-> 0, MAX_PROMPT_LENGTH |-> 0,
                     INCLUDE_FILE_CONTEXT |-> FALSE]
    /\ prompt_parts = <<>>
    /\ total_length = 0
    /\ file_pos = 0
    /\ prompt_pc = "idle"
    /\ diffs_text = <<>>

InitWebhook ==
    /\ event \in Events
    /\ pc = "handle_webhook_event"
    /\ HandlerIdle
    /\ ParserIdle
    /\ EndpointIdle
    /\ RetryIdle
    /\ PromptIdle

NextWebhook ==
    \/ HandlePullRequest
    \/ HandleIssueComment
    \/ IgnoreEvent
    \/ GetPullRequest
    \/ GetRepoConfig
    \/ ReviewPullRequest
    \/ SkipFile
    \/ PromptRaises
    \/ ReviewFile
    \/ PostReview
    \/ NoCommentsToPost

SpecWebhook == InitWebhook /\ [][NextWebhook]_vars

-----------------------------------------------------------------------------
(* The parser run on every diff of at most MaxLines lines *)

\* The texts with the given lines: with and without a final separator.
DiffTexts ==
    LET ls == SeqsUpTo(DiffLines, MaxLines) IN
    {join(l) : l \in ls} \cup {join(l) \o <<NL>> : l \in ls}

InitParse ==
    /\ diff_content \in DiffTexts
    /\ parsed = <<>>
    /\ reparsed = NotReparsed
    /\ pc_parse = "input"
    /\ event \in {e \in OtherEvents : e.event_type = "push"}
    /\ pc = "idle"
    /\ HandlerIdle
    /\ EndpointIdle
    /\ RetryIdle
    /\ PromptIdle

\* parsed = parse_diff(diff_content)
CallParseDiff ==
    /\ pc_parse = "input"
    /\ parsed' = parse_diff(diff_content)
    /\ pc_parse' = "parsed"
    /\ UNCHANGED <<diff_content, reparsed, hookVars, reviewVars,
                   endpointVars, appVars>>

\* parse_diff(entry["diff"]) for an entry of the result.
ReparseDiffText ==
    /\ pc_parse = "parsed"
    /\ \E f \in 1..Len(parsed) :
          reparsed' = [entry |-> f, how |-> "alone",
                       result |-> parse_diff(parsed[f].diff)]
    /\ pc_parse' = "reparsed"
    /\ UNCHANGED <<diff_content, parsed, hookVars, reviewVars,
                   endpointVars, appVars>>

\* The text a file header line, one further (empty) line and a diff text make.
BehindHeader(header, diff) == <<header, NL, NL>> \o diff

\* parse_diff of an entry's diff text put behind a file header.
ReparseBehindHeader ==
    /\ pc_parse = "parsed"
    /\ \E f \in 1..Len(parsed) : \E header \in FileHeaderLines \cap DiffLines :
          reparsed' = [entry |-> f, how |-> "headed",
                       result |-> parse_diff(
                                     BehindHeader(header, parsed[f].diff))]
    /\ pc_parse' = "reparsed"
    /\ UNCHANGED <<diff_content, parsed, hookVars, reviewVars,
                   endpointVars, appVars>>

-----------------------------------------------------------------------------
(* The command parser run on every comment body of at most MaxPieces pieces *)

\* The pieces of the bodies: the mention, the separators, the recognised
\* command and another word.
CommentPieces == {BOT_MENTION, SP, NL, "re-review", "X"}

\* Bodies with runs of spaces and several arguments.
SpacedBodies ==
    { <<BOT_MENTION, SP, SP, "re-review", SP, SP, "X", SP, "now", SP>>,
      <<SP, NL, BOT_MENTION, SP, NL, "X", SP, BOT_MENTION, SP, BOT_MENTION,
        SP, "X", NL, BOT_MENTION, SP, "re-review">> }

ParseBodies ==
    SeqsUpTo(CommentPieces, MaxPieces) \cup CommentBodies \cup SpacedBodies

InitComment ==
    /\ event \in { [ event_type |-> "issue_comment", action |-> "created",
                     draft |-> FALSE, issue_is_pr |-> TRUE, body |-> b,
                     number |-> 1, sha |-> "" ] : b \in ParseBodies }
    /\ pc = "parse_comment"
    /\ HandlerIdle
    /\ ParserIdle
    /\ EndpointIdle
    /\ RetryIdle
    /\ PromptIdle

\* command = parse_comment(comment_body)
CallParseComment ==
    /\ pc = "parse_comment"
    /\ command' = parse_comment(event.body)
    /\ pc' = "parsed_comment"
    /\ UNCHANGED <<event, pr_data, calls, head_sha, config_fetch, repo_config,
                   reviewVars, parseVars,
                   endpointVars, appVars>>

NextComment == CallParseComment

SpecComment == InitComment /\ [][NextComment]_vars

NextParse == CallParseDiff \/ ReparseDiffText \/ ReparseBehindHeader

SpecParse == InitParse /\ [][NextParse]_vars

-----------------------------------------------------------------------------
(* utils/security.py and main.py: the POST /webhook endpoint *)

\* settings.GITHUB_WEBHOOK_SECRET, and a secret that is not the configured one.
GITHUB_WEBHOOK_SECRET == "ullrai"

OtherSecret == "guess"

\* hmac.new(key, msg=body, digestmod=hashlib.sha256).hexdigest(), as a term
\* over its key and message: equal digests have equal keys and messages.
hexdigest(key, msg) == "hmac_sha256<" \o key \o "><" \o msg \o ">"

\* The payload of an event: the fields of the JSON document of the body.
PayloadOf(e) == [f \in (DOMAIN e) \ {"event_type"} |-> e[f]]

Payloads == {PayloadOf(e) : e \in Events}

BoolText(b) == IF b THEN "true" ELSE "false"

\* The JSON document GitHub sends for a payload.
dumps(payload) ==
    "{action: " \o payload.action
        \o ", draft: " \o BoolText(payload.draft)
        \o ", issue.pull_request: " \o BoolText(payload.issue_is_pr)
        \o ", comment.body: " \o Concat(payload.body)
        \o ", number: " \o ToString(payload.number)
        \o ", head.sha: " \o payload.sha \o "}"

\* A body that is no JSON document: a delivery with the content type
\* application/x-www-form-urlencoded.
FORM_BODY == "payload=%7B%22action%22%3A%22opened%22%7D"

\* request.json(): the payload of the body, or an exception for a body that
\* is no JSON document.
json(body) ==
    IF \E payload \in Payloads : dumps(payload) = body
    THEN [ok |-> TRUE,
          value |-> CHOOSE payload \in Payloads : dumps(payload) = body]
    ELSE [ok |-> FALSE, value |-> [action |-> ""]]

\* A header value hmac.compare_digest raises TypeError for: a str with a
\* character that is not ASCII.
NonAsciiSignature == "sha256=[e-acute]"

\* The X-Hub-Signature-256 header that may come with a body: none, an empty
\* one, the signature of the body under the configured secret, that
\* signature without its prefix, with another prefix, under another secret,
\* of another body, and a value that is not ASCII.
SignatureHeaders(body) ==
    { <<>>, <<"">>,
      <<"sha256=" \o hexdigest(GITHUB_WEBHOOK_SECRET, body)>>,
      <<hexdigest(GITHUB_WEBHOOK_SECRET, body)>>,
      <<"sha1=" \o hexdigest(GITHUB_WEBHOOK_SECRET, body)>>,
      <<"sha256=" \o hexdigest(OtherSecret, body)>>,
      <<"sha256=" \o hexdigest(GITHUB_WEBHOOK_SECRET, "{}")>>,
      <<NonAsciiSignature>> }

\* The requests: the deliveries of the events, and a form-encoded delivery,
\* each with every signature header.
Requests ==
    { [signature |-> sig, event_type |-> e.event_type,
       body |-> dumps(PayloadOf(e))] :
        e \in Events, sig \in UNION {SignatureHeaders(dumps(PayloadOf(x))) :
                                        x \in Events} }
    \cup { [signature |-> sig, event_type |-> "pull_request",
            body |-> FORM_BODY] : sig \in SignatureHeaders(FORM_BODY) }

Verified == [raised |-> "none", status_code |-> 0, detail |-> ""]

HTTPException(code, text) ==
    [raised |-> "HTTPException", status_code |-> code, detail |-> text]

TypeError == [raised |-> "TypeError", status_code |-> 500, detail |-> ""]

\* A mutant of verify_github_signature: the digest is compared, the prefix
\* is not.
verify_github_signature_any_prefix(req) ==
    IF req.signature = <<>> \/ req.signature = <<"">>
    THEN HTTPException(403, "X-Hub-Signature-256 header is missing!")
    ELSE IF req.signature[1] = NonAsciiSignature
    THEN TypeError
    ELSE IF req.signature[1] \notin
               { "sha256=" \o hexdigest(GITHUB_WEBHOOK_SECRET, req.body),
                 "sha1=" \o hexdigest(GITHUB_WEBHOOK_SECRET, req.body) }
    THEN HTTPException(403, "Request signature does not match!")
    ELSE Verified

\* verify_github_signature(request, body): it returns, or raises.
verify_github_signature(req) ==
    IF req.signature = <<>> \/ req.signature = <<"">>
    THEN HTTPException(403, "X-Hub-Signature-256 header is missing!")
    ELSE IF req.signature[1] = NonAsciiSignature
    THEN TypeError
    ELSE IF "sha256=" \o hexdigest(GITHUB_WEBHOOK_SECRET, req.body)
               # req.signature[1]
    THEN HTTPException(403, "Request signature does not match!")
    ELSE Verified

\* The response the framework makes of an exception that left the endpoint.
error_response(e) ==
    IF e.raised = "HTTPException"
    THEN [status_code |-> e.status_code, content |-> e.detail]
    ELSE [status_code |-> 500, content |-> "Internal Server Error"]

\* return {"status": "accepted"}
Accepted == [status_code |-> 200, content |-> "{status: accepted}"]

Task(fn, args) == [fn |-> fn, args |-> args]

\* A mutant of add_task: the task is dropped.
add_task_dropped(tasks, fn, args) == tasks

\* background_tasks.add_task(func, *args)
add_task(tasks, fn, args) == Append(tasks, Task(fn, args))

\* github_webhook: the signature is verified, the body is read as JSON, the
\* task is added and the acknowledgment returned; an exception on the way
\* becomes the response.
GithubWebhook ==
    /\ request # NoRequest
    /\ response = NoResponse
    /\ LET verified == verify_github_signature(request)
           payload == json(request.body) IN
       IF verified # Verified
       THEN /\ response' = error_response(verified)
            /\ UNCHANGED background_tasks
       ELSE IF ~payload.ok
       THEN /\ response' = error_response(TypeError)
            /\ UNCHANGED background_tasks
       ELSE /\ background_tasks' =
                  add_task(background_tasks, "handle_webhook_event",
                           <<request.event_type, payload.value>>)
            /\ response' = Accepted
    /\ UNCHANGED <<request, hookVars, reviewVars, parseVars, appVars>>

\* handle_webhook_event's arguments, as the event of the handler.
EventOf(event_type, payload) ==
    [f \in (DOMAIN payload) \cup {"event_type"} |->
        IF f = "event_type" THEN event_type ELSE payload[f]]

\* The framework starts the first background task once the response is sent.
RunBackgroundTask ==
    /\ response # NoResponse
    /\ background_tasks # <<>>
    /\ pc = "idle"
    /\ event' = EventOf(Head(background_tasks).args[1],
                        Head(background_tasks).args[2])
    /\ pc' = "handle_webhook_event"
    /\ background_tasks' = Tail(background_tasks)
    /\ UNCHANGED <<request, response, pr_data, calls, head_sha, command,
                   config_fetch, repo_config, reviewVars, parseVars, appVars>>

InitEndpoint ==
    /\ request \in Requests
    /\ response = NoResponse
    /\ background_tasks = <<>>
    /\ event \in {e \in OtherEvents : e.event_type = "push"}
    /\ pc = "idle"
    /\ HandlerIdle
    /\ ParserIdle
    /\ RetryIdle
    /\ PromptIdle

NextEndpoint ==
    \/ GithubWebhook
    \/ RunBackgroundTask
    \/ NextWebhook

SpecEndpoint == InitEndpoint /\ [][NextEndpoint]_vars

-----------------------------------------------------------------------------
(* app.py: retry_on_failure *)

Return(v) == [kind |-> "return", value |-> v]

Raise(e) == [kind |-> "raise", value |-> e]

\* Exceptions that "except Exception" catches, and one that it does not.
Exceptions == {"HTTPError", "Timeout", "ConnectionError"}

BaseExceptions == {"KeyboardInterrupt"}

\* What a call of the wrapped function may come to.
FuncOutcomes ==
    {Return(v) : v \in {"pr", "files"}}
        \cup {Raise(e) : e \in Exceptions \cup BaseExceptions}

\* A mutant of range: one attempt more.
range_inclusive(n) == 0..n

\* range(max_attempts)
range(n) == 0..(n - 1)

\* except Exception as e
caught(outcome) == outcome.kind = "raise" /\ outcome.value \in Exceptions

\* One pass of the wrapper's loop: func is called; its result is returned,
\* or its exception is kept, the wrapper sleeps unless this was the last
\* attempt, and the loop goes on; an exception that is no Exception leaves
\* the wrapper.
Invoke ==
    /\ wrapper_result = Running
    /\ attempt \in range(max_attempts)
    /\ \E outcome \in FuncOutcomes :
          /\ invocations' = Append(invocations, outcome)
          /\ IF caught(outcome)
             THEN /\ last_exception' = <<outcome.value>>
                  /\ sleeps' = IF attempt < max_attempts - 1
                               THEN Append(sleeps, attempt + 1)
                               ELSE sleeps
                  /\ attempt' = attempt + 1
                  /\ UNCHANGED wrapper_result
             ELSE /\ wrapper_result' = outcome
                  /\ UNCHANGED <<last_exception, sleeps, attempt>>
    /\ UNCHANGED <<max_attempts, parseVars, hookVars, reviewVars,
                   endpointVars, promptVars>>

\* raise last_exception, behind the loop; "raise None" is a TypeError.
RaiseLast ==
    /\ wrapper_result = Running
    /\ attempt \notin range(max_attempts)
    /\ wrapper_result' = IF last_exception = None THEN Raise("TypeError")
                         ELSE Raise(last_exception[1])
    /\ UNCHANGED <<max_attempts, attempt, last_exception, invocations,
                   sleeps, parseVars, hookVars, reviewVars, endpointVars,
                   promptVars>>

InitRetry ==
    /\ max_attempts \in 0..MaxAttempts
    /\ attempt = 0
    /\ last_exception = None
    /\ invocations = <<>>
    /\ sleeps = <<>>
    /\ wrapper_result = Running
    /\ event \in {e \in OtherEvents : e.event_type = "push"}
    /\ pc = "idle"
    /\ HandlerIdle
    /\ ParserIdle
    /\ EndpointIdle
    /\ PromptIdle

NextRetry == Invoke \/ RaiseLast

SpecRetry == InitRetry /\ [][NextRetry]_vars

-----------------------------------------------------------------------------
(* app.py: PRReviewer.create_review_prompt *)
(* A text is a sequence of pieces, as above; "[tick]" stands for one       *)
(* backquote and "[fence]" for three.                                      *)

SAFE_FENCE == "[tick][tick] [tick]"

HUNK_AT_3 == "@@ -3,2 +3,4 @@"

OMITTED_NOTE == "\n_[More files omitted due to total length limit...]_"

\* len() of a piece.
PieceLen(piece) ==
    CASE piece = "## File: [tick]" -> 10
      [] piece = "[tick] (Status: " -> 11
      [] piece = ")\n\n" -> 3
      [] piece = "### Modified File Context" -> 25
      [] piece = " (Code snippet around line " -> 27
      [] piece = ")" -> 1
      [] piece = " (Complete file)" -> 16
      [] piece = "\n[fence]\n" -> 5
      [] piece = "\n[fence]\n\n" -> 6
      [] piece = "_[Unable to get modified file context]_\n\n" -> 41
      [] piece = "### Diff for This Commit\n[fence]diff\n" -> 33
      [] piece = "\n[fence]\n\n---\n\n" -> 11
      [] piece = "_No changes_" -> 12
      [] piece = OMITTED_NOTE -> 52
      [] piece = HUNK_AT_3 -> 15
      [] piece = FENCE -> 3
      [] piece = SAFE_FENCE -> 4
      [] piece = NL -> 1
      [] piece \in {"1", "3"} -> 1
      [] piece \in {"+x", "l1", "l2", "l3"} -> 2
      [] piece = "a.py" -> 4
      [] piece = "README.md" -> 9
      [] piece = "added" -> 5
      [] piece = "modified" -> 8

RECURSIVE len(_)
\* len() of a text.
len(text) ==
    IF text = <<>> THEN 0 ELSE PieceLen(Head(text)) + len(Tail(text))

\* github_client.get_file_content_from_repo: it raises, or returns a text.
ContentRaises == [ok |-> FALSE, text |-> <<>>]

Content(text) == [ok |-> TRUE, text |-> text]

\* The files of a pull request as get_pr_files returns them, with what
\* fetching each one's content comes to: a modified file with a hunk at
\* line 3 and three lines of content; an added file whose patch holds a code
\* fence; a modified file without patch whose content cannot be fetched; a
\* modified file with one line of content.
PrFileChoices ==
    { [filename |-> "a.py", status |-> "modified",
       patch |-> <<HUNK_AT_3, NL, "+x">>,
       content |-> Content(<<"l1", NL, "l2", NL, "l3">>)],
      [filename |-> "README.md", status |-> "added",
       patch |-> <<"+x", NL, FENCE>>, content |-> ContentRaises],
      [filename |-> "a.py", status |-> "modified",
       patch |-> <<>>, content |-> ContentRaises],
      [filename |-> "README.md", status |-> "modified",
       patch |-> <<"+x">>, content |-> Content(<<"l1", NL>>)] }

\* config.CONTEXT_MAX_LINES and config.CONTEXT_SURROUNDING_LINES
CONTEXT_MAX_LINES == 2

CONTEXT_SURROUNDING_LINES == 1

\* config.MAX_PROMPT_LENGTH: no room; exactly the room of a section of 92
\* characters; exactly the room of sections of 87 and 92 characters; room
\* for two or three sections; room for all.
PromptBudgets == {0, 92, 179, 260, 1000}

AppConfigs ==
    [MAX_FILES_PER_REVIEW : 0..MaxFiles, MAX_PROMPT_LENGTH : PromptBudgets,
     INCLUDE_FILE_CONTEXT : BOOLEAN]

\* files[:config.MAX_FILES_PER_REVIEW]
first_files(files, n) == SubSeq(files, 1, IF n < Len(files) THEN n ELSE Len(files))

\* _get_context_line_from_patch: the source line of the first hunk header of
\* the patch, 1 without one.
get_context_line_from_patch(patch) ==
    IF \E k \in 1..Len(patch) : patch[k] = HUNK_AT_3 THEN 3 ELSE 1

Max(a, b) == IF a > b THEN a ELSE b

Min(a, b) == IF a < b THEN a ELSE b

\* The "Modified File Context" part of a file's section for the content
\* that was fetched.
file_context(modified_content, patch) ==
    LET lines == splitlines(modified_content)
        start_line == get_context_line_from_patch(patch)
        slice_start == Max(0, start_line - CONTEXT_SURROUNDING_LINES)
        slice_end == Min(Len(lines), start_line + CONTEXT_SURROUNDING_LINES)
    IN  IF Len(lines) > CONTEXT_MAX_LINES
        THEN << "### Modified File Context", " (Code snippet around line ",
                ToString(start_line), ")", "\n[fence]\n" >>
                \o join(SubSeq(lines, slice_start + 1, slice_end))
                \o << "\n[fence]\n\n" >>
        ELSE << "### Modified File Context", " (Complete file)",
                "\n[fence]\n" >>
                \o modified_content \o << "\n[fence]\n\n" >>

\* patch.replace of a code fence, or the note for a file without patch.
safe_patch(patch) ==
    IF patch # <<>>
    THEN [k \in 1..Len(patch) |->
             IF patch[k] = FENCE THEN SAFE_FENCE ELSE patch[k]]
    ELSE <<"_No changes_">>

\* file_prompt, as one pass of the loop builds it.
file_prompt(file, cfg, pr) ==
    <<"## File: [tick]", file.filename, "[tick] (Status: ", file.status,
      ")\n\n">>
    \o (IF /\ cfg.INCLUDE_FILE_CONTEXT
           /\ file.status = "modified"
           /\ pr.has_head_and_repo
        THEN IF file.content.ok
             THEN file_context(file.content.text, file.patch)
             ELSE <<"_[Unable to get modified file context]_\n\n">>
        ELSE <<>>)
    \o <<"### Diff for This Commit\n[fence]diff\n">>
    \o safe_patch(file.patch)
    \o <<"\n[fence]\n\n---\n\n">>

\* A mutant of over_limit: the section that reaches the limit is let in.
over_limit_after(total, section, limit) == total > limit

\* total_length + len(file_prompt) > config.MAX_PROMPT_LENGTH
over_limit(total, section, limit) == total + len(section) > limit

PromptFiles == first_files(pr_files, app_config.MAX_FILES_PER_REVIEW)

\* One pass of the loop for a section that fits: it is appended and counted.
AppendFilePrompt ==
    /\ prompt_pc = "loop"
    /\ file_pos <= Len(PromptFiles)
    /\ LET section == file_prompt(PromptFiles[file_pos], app_config,
                                  prompt_pr_data) IN
          /\ ~over_limit(total_length, section, app_config.MAX_PROMPT_LENGTH)
          /\ prompt_parts' = Append(prompt_parts, section)
          /\ total_length' = total_length + len(section)
    /\ file_pos' = file_pos + 1
    /\ UNCHANGED <<pr_files, prompt_pr_data, app_config, prompt_pc,
                   diffs_text, parseVars, hookVars, reviewVars,
                   endpointVars, retryVars>>

RECURSIVE Flatten(_)
\* "".join(prompt_parts)
Flatten(parts) ==
    IF parts = <<>> THEN <<>> ELSE Head(parts) \o Flatten(Tail(parts))

\* One pass of the loop for a section that does not fit: the note is
\* appended, the loop is left and the parts are joined.
StopAtLimit ==
    /\ prompt_pc = "loop"
    /\ file_pos <= Len(PromptFiles)
    /\ over_limit(total_length,
                  file_prompt(PromptFiles[file_pos], app_config,
                              prompt_pr_data),
                  app_config.MAX_PROMPT_LENGTH)
    /\ prompt_parts' = Append(prompt_parts, <<OMITTED_NOTE>>)
    /\ diffs_text' = Flatten(prompt_parts')
    /\ prompt_pc' = "joined"
    /\ UNCHANGED <<pr_files, prompt_pr_data, app_config, total_length,
                   file_pos, parseVars, hookVars, reviewVars, endpointVars,
                   retryVars>>

\* The loop has passed every file: the parts are joined.
JoinParts ==
    /\ prompt_pc = "loop"
    /\ file_pos > Len(PromptFiles)
    /\ diffs_text' = Flatten(prompt_parts)
    /\ prompt_pc' = "joined"
    /\ UNCHANGED <<pr_files, prompt_pr_data, app_config, prompt_parts,
                   total_length, file_pos, parseVars, hookVars, reviewVars,
                   endpointVars, retryVars>>

InitPrompt ==
    /\ pr_files \in SeqsUpTo(PrFileChoices, MaxFiles)
    /\ prompt_pr_data \in [has_head_and_repo : BOOLEAN]
    /\ app_config \in AppConfigs
    /\ prompt_parts = <<>>
    /\ total_length = 0
    /\ file_pos = 1
    /\ prompt_pc = "loop"
    /\ diffs_text = <<>>
    /\ event \in {e \in OtherEvents : e.event_type = "push"}
    /\ pc = "idle"
    /\ HandlerIdle
    /\ ParserIdle
    /\ EndpointIdle
    /\ RetryIdle

NextPrompt == AppendFilePrompt \/ StopAtLimit \/ JoinParts

SpecPrompt == InitPrompt /\ [][NextPrompt]_vars

-----------------------------------------------------------------------------
(* What the diff being parsed says, read off its lines *)

InputLines == splitlines(diff_content)

\* The file header lines of the input, in order.
InputHeaders == SelectSeq(InputLines, file_header_match)

\* The index in InputLines of the k-th file header line.
HeaderAt(k) ==
    CHOOSE i \in 1..Len(InputLines) :
        /\ file_header_match(InputLines[i])
        /\ Cardinality({j \in 1..i : file_header_match(InputLines[j])}) = k

\* The last line of the k-th file section: the line before the next file
\* header, or the last line of the input.
SectionEnd(k) ==
    IF k < Len(InputHeaders) THEN HeaderAt(k + 1) - 1 ELSE Len(InputLines)

\* The lines of the k-th file section after its header.
SectionLines(k) == SubSeq(InputLines, HeaderAt(k) + 1, SectionEnd(k))

HasHunkHeader(ls) == \E j \in 1..Len(ls) : hunk_header_match(ls[j])

\* The lines of ls before its first hunk header line (all of ls if none).
BeforeFirstHunk(ls) ==
    IF HasHunkHeader(ls)
    THEN SubSeq(ls, 1,
            (CHOOSE j \in 1..Len(ls) :
                /\ hunk_header_match(ls[j])
                /\ \A m \in 1..(j - 1) : ~hunk_header_match(ls[m])) - 1)
    ELSE ls

RECURSIVE AllHunks(_)
\* The hunks of all entries of a result, in order.
AllHunks(files) ==
    IF files = <<>> THEN <<>>
    ELSE Head(files).hunks \o AllHunks(Tail(files))

Starts(hunks) ==
    [k \in 1..Len(hunks) |->
        <<hunks[k].source_start_line, hunks[k].target_start_line>>]

\* <<src, tgt>> as written in the hunk header lines of ls, in order.
HeaderStarts(ls) ==
    LET hs == SelectSeq(ls, hunk_header_match) IN
    [k \in 1..Len(hs) |->
        <<hunk_header_groups(hs[k]).src, hunk_header_groups(hs[k]).tgt>>]

\* The lines that lie in some file section: those after the first file header.
LinesInSections ==
    IF InputHeaders = <<>> THEN <<>>
    ELSE SubSeq(InputLines, HeaderAt(1) + 1, Len(InputLines))

Parsed == pc_parse # "input"

-----------------------------------------------------------------------------
(* Claims about parse_diff *)

\* C1 (as claimed): a diff with N file header lines is parsed into exactly N
\* entries, in the order of the headers, each with the b/ path of its header.
C1_EntryPerHeader ==
    Parsed =>
        [k \in 1..Len(parsed) |-> parsed[k].file_path]
            = [k \in 1..Len(InputHeaders) |->
                   file_header_group2(InputHeaders[k])]

\* C2 (as claimed): every hunk header line inside a file section produces
\* exactly one hunk, whose source and target start lines are the numbers of
\* the header, with or without line-count suffixes.
C2_HunkPerHeader ==
    Parsed => Starts(AllHunks(parsed)) = HeaderStarts(LinesInSections)

\* C3 (as claimed): a file section with no hunk header line yields a file
\* entry with no hunks and the empty diff text.
C3_HunklessSectionEmpty ==
    Parsed =>
        \A k \in 1..Len(InputHeaders) :
            ~HasHunkHeader(SectionLines(k)) =>
                /\ k <= Len(parsed)
                /\ parsed[k].hunks = <<>>
                /\ parsed[k].diff = <<>>

\* C4 (as claimed): parsing an entry's diff text again yields the hunks of
\* the entry.
C4_ReparseSameHunks ==
    reparsed.how = "alone" =>
        AllHunks(reparsed.result) = parsed[reparsed.entry].hunks

\* The hunks with one final empty line of the last hunk left out.
DropFinalEmptyLine(hunks) ==
    IF hunks = <<>> THEN hunks
    ELSE LET ls == hunks[Len(hunks)].lines IN
         IF ls # <<>> /\ ls[Len(ls)] = ""
         THEN [hunks EXCEPT ![Len(hunks)].lines = SubSeq(ls, 1, Len(ls) - 1)]
         ELSE hunks

\* C4 (amended): parsing an entry's diff text alone yields no entry, as the
\* text holds no file header; parsing it behind a file header line and one
\* further line yields one entry with the hunks of the original entry (same
\* number, start lines and lines), less one final empty line of the last hunk.
C4_ReparseBehindHeaderSameHunks ==
    /\ reparsed.how = "alone" => reparsed.result = <<>>
    /\ reparsed.how = "headed" =>
          /\ Len(reparsed.result) = 1
          /\ reparsed.result[1].hunks
                = DropFinalEmptyLine(parsed[reparsed.entry].hunks)

\* C4 witness: an entry with a hunk that ends in an empty line has been parsed
\* again behind a header, and that line alone is missing from the result.
C4_Witness ==
    /\ reparsed.how = "headed"
    /\ parsed[reparsed.entry].hunks # <<>>
    /\ Len(reparsed.result) = 1
    /\ reparsed.result[1].hunks # parsed[reparsed.entry].hunks
    /\ Starts(reparsed.result[1].hunks) = Starts(parsed[reparsed.entry].hunks)

\* C5 (as claimed): in a file section with a hunk, the lines between the file
\* header and the first hunk header are the lines of the entry's diff text
\* before its first hunk header, verbatim and in order.
C5_MetadataKept ==
    Parsed =>
        \A k \in 1..Len(InputHeaders) :
            HasHunkHeader(SectionLines(k)) =>
                /\ k <= Len(parsed)
                /\ BeforeFirstHunk(splitlines(parsed[k].diff))
                      = BeforeFirstHunk(SectionLines(k))

\* C6 (as claimed): every hunk has target_start_line >= 1.
C6_TargetStartPositive ==
    Parsed =>
        \A k \in 1..Len(AllHunks(parsed)) :
            AllHunks(parsed)[k].target_start_line >= 1

\* C6 (amended): every hunk's target_start_line is the '+' start of a hunk
\* header line of the input, a number >= 0: it is 0 for a header such as
\* "@@ -1,3 +0,0 @@" and >= 1 otherwise.
C6_TargetStartFromHeader ==
    Parsed =>
        \A k \in 1..Len(AllHunks(parsed)) :
            LET t == AllHunks(parsed)[k].target_start_line IN
            /\ t >= 0
            /\ \E j \in 1..Len(InputLines) :
                  /\ hunk_header_match(InputLines[j])
                  /\ hunk_header_groups(InputLines[j]).tgt = t

\* C6 witness: the hunk of a deleted file has been parsed.
C6_Witness ==
    /\ Parsed
    /\ \E k \in 1..Len(AllHunks(parsed)) :
          /\ AllHunks(parsed)[k].target_start_line = 0
          /\ AllHunks(parsed)[k].lines # <<>>

-----------------------------------------------------------------------------
(* Claims about handle_webhook_event *)

CallsOf(fn) == SelectSeq(calls, LAMBDA c : c.fn = fn)

\* The calls that belong to a review: everything handle_webhook_event and the
\* functions it awaits ask of a collaborator.
NoCalls == calls = <<>>

\* handle_webhook_event has ended, or is inside review_pull_request.
ReviewStarted == pc \in {"review_files", "returned", "raised"}

IsPullRequestTrigger(e) ==
    /\ e.event_type = "pull_request"
    /\ e.action \in {"opened", "synchronize", "reopened"}

\* The comment body holds the mention, then only spaces, then the token
\* "re-review" ending at a space, a line end or the end of the body.
MentionThenCommand(body) ==
    \E i \in 1..Len(body) : \E j \in (i + 1)..Len(body) :
        /\ body[i] = BOT_MENTION
        /\ \A k \in (i + 1)..(j - 1) : body[k] = SP
        /\ body[j] = "re-review"
        /\ j < Len(body) => body[j + 1] \in {SP, NL}

IsCommentTrigger(e) ==
    /\ e.event_type = "issue_comment"
    /\ e.action = "created"
    /\ e.issue_is_pr
    /\ MentionThenCommand(e.body)

\* C7: for a pull_request event with action opened, synchronize or reopened
\* whose request is not a draft, handle_webhook_event never calls
\* get_pull_request and never ends with an exception, calls get_repo_config and
\* review_pull_request at most once each, and once it has passed its dispatch
\* has called each exactly once: get_repo_config with the payload's repository
\* name and head sha, then review_pull_request with the payload's repository
\* name, number and head sha and the resolved configuration.
C7_NonDraftPullRequestReviewed ==
    (IsPullRequestTrigger(event) /\ ~event.draft) =>
        /\ CallsOf("get_pull_request") = <<>>
        /\ pc # "raised"
        /\ Len(CallsOf("get_repo_config")) <= 1
        /\ Len(CallsOf("review_pull_request")) <= 1
        /\ ReviewStarted =>
              /\ CallsOf("get_repo_config") =
                    << Call("get_repo_config",
                            <<REPO_FULL_NAME, event.sha>>) >>
              /\ CallsOf("review_pull_request") =
                    << Call("review_pull_request",
                            <<REPO_FULL_NAME, event.number, event.sha,
                              repo_config>>) >>
              /\ calls[1].fn = "get_repo_config"

\* A reopened pull request that is not a draft has been reviewed with a
\* configuration read from the repository.
C7_Witness ==
    /\ event.event_type = "pull_request"
    /\ event.action = "reopened" /\ ~event.draft
    /\ pc = "returned"
    /\ repo_config # DefaultRepoConfig
    /\ Len(CallsOf("review_pull_request")) = 1
    /\ Len(CallsOf("post_review")) = 1

\* C8: a pull_request event with action opened, synchronize or reopened whose
\* payload has draft = true is rejected: no configuration is resolved, no diff
\* is fetched, the model is not called and no review is submitted.
C8_DraftRejected ==
    (IsPullRequestTrigger(event) /\ event.draft) => NoCalls

\* C9: an issue_comment event makes a call only when its action is created,
\* the issue carries a pull_request field and the body holds the mention
\* followed by re-review; then the first call is the one get_pull_request
\* call, for the payload's repository and issue number, and get_repo_config
\* and review_pull_request follow it with the head sha it returned.
C9_CommentAcceptedOnlyOnCommand ==
    (event.event_type = "issue_comment" /\ ~NoCalls) =>
        /\ IsCommentTrigger(event)
        /\ calls[1] = Call("get_pull_request",
                           <<REPO_FULL_NAME, event.number>>)
        /\ Len(CallsOf("get_pull_request")) = 1
        /\ Len(CallsOf("get_repo_config")) <= 1
        /\ Len(CallsOf("review_pull_request")) <= 1
        /\ \A k \in 1..Len(calls) :
              /\ calls[k].fn = "get_repo_config" =>
                    /\ k = 2
                    /\ calls[k].args = <<REPO_FULL_NAME, head_sha>>
              /\ calls[k].fn = "review_pull_request" =>
                    /\ k > 2
                    /\ calls[k].args[3] = head_sha
        /\ pc # "raised" => head_sha \in LookupShas
        /\ (ReviewStarted /\ pc # "raised") =>
              /\ Len(CallsOf("get_repo_config")) = 1
              /\ Len(CallsOf("review_pull_request")) = 1

\* A re-review comment on a pull request has led to a review at the head sha
\* that the lookup returned.
C9_Witness ==
    /\ IsCommentTrigger(event)
    /\ pc = "returned"
    /\ head_sha = "def"
    /\ Len(CallsOf("get_pull_request")) = 1
    /\ Len(CallsOf("review_pull_request")) = 1
    /\ Len(CallsOf("post_review")) = 1

\* C10: every event that matches neither accept rule (a pull request trigger
\* that is not a draft, a re-review comment on a pull request) is rejected
\* without a call: no lookup, no configuration fetch, no diff fetch, no model
\* call and no review submission.
C10_OthersRejectedNoCalls ==
    (~(IsPullRequestTrigger(event) /\ ~event.draft) /\ ~IsCommentTrigger(event))
        => NoCalls

\* The cases C10 lists by name: another event type, another action, a comment
\* on a plain issue, a comment with no command, a mention followed by another
\* command. For these handle_webhook_event returns at once with no call.
C10_ListedCasesNoCalls ==
    (~IsPullRequestTrigger(event) /\ ~IsCommentTrigger(event)) =>
        /\ NoCalls
        /\ pc \in {"handle_webhook_event", "returned"}

-----------------------------------------------------------------------------
(* Claims about parse_comment *)

CommentParsed == pc = "parsed_comment"

\* The mention stands in the body as a whole token: a space, a line end or
\* an end of the body on each side of it.
MentionIsWholeToken(body) ==
    \E k \in 1..Len(body) :
        /\ body[k] = BOT_MENTION
        /\ k > 1 => IsSpace(body[k - 1])
        /\ k < Len(body) => IsSpace(body[k + 1])

\* C11: a body in which the mention occurs only as part of a longer token
\* yields no command.
C11_MentionWholeTokenOnly ==
    (CommentParsed /\ ~MentionIsWholeToken(event.body)) => command = None

\* Where the tokens of a text start: a piece that is no space, at the start
\* of the text or behind a space.
TokenStarts(text) ==
    {a \in 1..Len(text) : ~IsSpace(text[a]) /\ (a > 1 => IsSpace(text[a - 1]))}

TokenEnd(text, a) ==
    CHOOSE b \in a..Len(text) :
        /\ \A j \in a..b : ~IsSpace(text[j])
        /\ b < Len(text) => IsSpace(text[b + 1])

\* The whitespace-separated tokens of a text, in order.
Tokens(text) ==
    [n \in 1..Cardinality(TokenStarts(text)) |->
        LET a == CHOOSE a \in TokenStarts(text) :
                     Cardinality({x \in TokenStarts(text) : x < a}) = n - 1
        IN  Concat(SubSeq(text, a, TokenEnd(text, a)))]

\* What follows the first mention of a line.
BehindMention(line) ==
    LET m == CHOOSE m \in 1..Len(line) :
                 line[m] = BOT_MENTION /\ \A j \in 1..(m - 1) : line[j] # BOT_MENTION
    IN  SubSeq(line, m + 1, Len(line))

\* The line has the mention and a token behind it.
BearsCommand(line) ==
    /\ \E m \in 1..Len(line) : line[m] = BOT_MENTION
    /\ Tokens(BehindMention(line)) # <<>>

RECURSIVE SingleSpaced(_, _)
\* The tokens from the n-th on, one space between two of them.
SingleSpaced(tokens, n) ==
    IF n > Len(tokens) THEN ""
    ELSE IF n = Len(tokens) THEN tokens[n]
    ELSE tokens[n] \o " " \o SingleSpaced(tokens, n + 1)

\* C12: parse_comment returns the command of the first line, top to bottom,
\* in which the mention is followed by a token: the first token behind the
\* mention, and the remaining tokens of that line joined by single spaces; a
\* line with a mention and no token behind it is passed over; with no
\* command-bearing line the result is None.
C12_FirstCommandBearingLine ==
    CommentParsed =>
        LET lines == LinesOf(event.body)
            bearing == {k \in 1..Len(lines) : BearsCommand(lines[k])}
        IN  IF bearing = {} THEN command = None
            ELSE LET k == CHOOSE k \in bearing : \A j \in bearing : k <= j
                     tokens == Tokens(BehindMention(lines[k]))
                 IN  command = <<tokens[1], SingleSpaced(tokens, 2)>>

\* A line with the mention and nothing behind it was passed over, and the
\* command of a later line was returned.
C12_Witness ==
    /\ CommentParsed
    /\ command # None
    /\ LET lines == LinesOf(event.body) IN
       \E k \in 1..Len(lines) :
          /\ \E m \in 1..Len(lines[k]) : lines[k][m] = BOT_MENTION
          /\ ~BearsCommand(lines[k])
          /\ \E j \in (k + 1)..Len(lines) : BearsCommand(lines[j])

-----------------------------------------------------------------------------
(* Claims about get_repo_config *)

FailedFetchKinds ==
    {"absent", "fetch_error", "empty", "invalid_yaml", "empty_yaml",
     "not_mapping", "schema_mismatch"}

\* C13: when the config file is absent, the fetch fails, the content is
\* empty, is no valid YAML or does not match the RepoConfig schema,
\* get_repo_config raises nothing and returns the all-defaults RepoConfig,
\* which is the configuration the review is then started with.
C13_ConfigFallsBackToDefaults ==
    config_fetch.kind \in FailedFetchKinds =>
        /\ pc # "raised"
        /\ repo_config = [ exclude_paths |-> <<>>, include_paths |-> <<>>,
                           review_language |-> "english",
                           custom_prompt |-> None ]
        /\ ReviewStarted =>
              \E k \in 1..Len(calls) :
                  /\ calls[k].fn = "review_pull_request"
                  /\ calls[k].args[4] = DefaultRepoConfig

\* A config file that RepoConfig rejects was read, and the review went on to
\* post its comments under the defaults.
C13_Witness ==
    /\ config_fetch.kind = "schema_mismatch"
    /\ pc = "returned"
    /\ repo_config = DefaultRepoConfig
    /\ Len(CallsOf("post_review")) = 1

-----------------------------------------------------------------------------
(* Claims about the path filters of review_pull_request *)

\* The path starts with one of the prefixes.
StartsWithAny(file_path, prefixes) ==
    \E k \in 1..Len(prefixes) : path_startswith(file_path, prefixes[k])

\* The calls of generate_review_comment for a file path.
GenerateCallsFor(file_path) ==
    SelectSeq(calls, LAMBDA c :
        c.fn = "generate_review_comment" /\ c.args[2] = file_path)

\* How often the model was invoked for a file path: the calls of
\* generate_review_comment for it that went on to generate_content_async.
ModelCallsFor(file_path) ==
    Cardinality({k \in 1..(Len(calls) - 1) :
        /\ calls[k].fn = "generate_review_comment"
        /\ calls[k].args[2] = file_path
        /\ calls[k + 1].fn = "generate_content_async"})

\* C14: a file whose path starts with a prefix of exclude_paths is skipped,
\* with no call of the model for it and no comment for it, whatever
\* include_paths holds, a prefix of the same path included.
C14_ExcludeBeforeInclude ==
    \A k \in 1..Len(parsed_files) :
        StartsWithAny(parsed_files[k].file_path, repo_config.exclude_paths) =>
            /\ GenerateCallsFor(parsed_files[k].file_path) = <<>>
            /\ ModelCallsFor(parsed_files[k].file_path) = 0
            /\ \A n \in 1..Len(comments_to_post) :
                  comments_to_post[n].path # parsed_files[k].file_path

\* A file that an exclude prefix and an include prefix both match was passed
\* by, and the run went on to review another file and post.
C14_Witness ==
    /\ pc = "returned"
    /\ Len(CallsOf("post_review")) = 1
    /\ \E k \in 1..Len(parsed_files) :
          /\ k < file_idx
          /\ StartsWithAny(parsed_files[k].file_path,
                           repo_config.exclude_paths)
          /\ StartsWithAny(parsed_files[k].file_path,
                           repo_config.include_paths)

\* The path passes both filters.
Eligible(file_path) ==
    /\ ~StartsWithAny(file_path, repo_config.exclude_paths)
    /\ \/ repo_config.include_paths = <<>>
       \/ StartsWithAny(file_path, repo_config.include_paths)

\* review_pull_request has parsed a diff and has ended.
RunEnded == pc = "returned" /\ file_idx >= 1

\* C15: in one run the model is invoked exactly once for every parsed file
\* whose path starts with no exclude prefix and, if include_paths is not
\* empty, with an include prefix, and never for another file.
C15_ModelCalledIffEligible ==
    RunEnded =>
        \A k \in 1..Len(parsed_files) :
            ModelCallsFor(parsed_files[k].file_path) =
                IF Eligible(parsed_files[k].file_path) THEN 1 ELSE 0

-----------------------------------------------------------------------------
(* Claims about the position of a comment *)

\* The comments handed to post_review, or collected so far.
SubmittedComments ==
    IF CallsOf("post_review") # <<>> THEN CallsOf("post_review")[1].args[4]
    ELSE <<>>

\* The parsed file of a comment.
FileOf(comment) ==
    CHOOSE k \in 1..Len(parsed_files) :
        parsed_files[k].file_path = comment.path

\* The line starts with "+" or with "-".
Changed(line) == line \in PlusLines \cup MinusLines

\* The first hunk, in order, that holds a changed line, and the place of the
\* first changed line in its line sequence, counted from 1.
AnchorHunks(hunks) ==
    {n \in 1..Len(hunks) :
        /\ \E i \in 1..Len(hunks[n].lines) : Changed(hunks[n].lines[i])
        /\ \A m \in 1..(n - 1) : \A i \in 1..Len(hunks[m].lines) :
              ~Changed(hunks[m].lines[i])}

AnchorOffsets(hunk) ==
    {i \in 1..Len(hunk.lines) :
        /\ Changed(hunk.lines[i])
        /\ \A j \in 1..(i - 1) : ~Changed(hunk.lines[j])}

\* C16: the position of a submitted comment is the 1-based offset of the
\* selected line within its hunk's line sequence (line index + 1), whatever
\* the start lines of the hunk.
C16_PositionIsOffsetInHunk ==
    \A c \in 1..Len(SubmittedComments) :
        LET hunks == parsed_files[FileOf(SubmittedComments[c])].hunks IN
        \E n \in AnchorHunks(hunks) : \E i \in AnchorOffsets(hunks[n]) :
            SubmittedComments[c].position = i

\* C17: a comment is anchored to the first line, hunks in order and lines in
\* order, that starts with "+" or "-": its position is the one computed for
\* that line; a file with no hunk, or with no such line in any hunk, gets no
\* position and no comment, neither collected nor submitted.
C17_AnchoredToFirstChangedLine ==
    /\ \A c \in 1..Len(comments_to_post) :
          LET hunks == parsed_files[FileOf(comments_to_post[c])].hunks IN
          \E n \in AnchorHunks(hunks) : \E i \in AnchorOffsets(hunks[n]) :
              comments_to_post[c].position =
                  hunks[n].target_start_line + (i - 1)
    /\ \A k \in 1..Len(parsed_files) :
          AnchorHunks(parsed_files[k].hunks) = {} =>
              /\ \A c \in 1..Len(comments_to_post) :
                    comments_to_post[c].path # parsed_files[k].file_path
              /\ \A c \in 1..Len(SubmittedComments) :
                    SubmittedComments[c].path # parsed_files[k].file_path
    /\ SubmittedComments # <<>> => SubmittedComments = comments_to_post

\* A run handled a finding for a file with no changed line in a hunk and a
\* finding anchored behind a context line, and posted the second only.
C17_Witness ==
    /\ pc = "returned"
    /\ Len(SubmittedComments) = 1
    /\ \E k \in 1..Len(parsed_files) :
          /\ AnchorHunks(parsed_files[k].hunks) = {}
          /\ ModelCallsFor(parsed_files[k].file_path) = 1
    /\ LET hunks == parsed_files[FileOf(SubmittedComments[1])].hunks IN
       \E n \in AnchorHunks(hunks) : AnchorOffsets(hunks[n]) = {2}

\* The file has one hunk, with target_start_line 1 and the lines
\* "-old line", "+new line".
OldNewHunkOnly(file_change) ==
    /\ Len(file_change.hunks) = 1
    /\ file_change.hunks[1].target_start_line = 1
    /\ file_change.hunks[1].lines = <<"-old line", "+new line">>

\* C18: for a file whose only hunk has target_start_line 1 and the lines
\* "-old line", "+new line", a submitted comment whose body is the text of the
\* model carries the file's path and position 2, the place of the added line.
C18_CommentOnAddedLine ==
    \A c \in 1..Len(SubmittedComments) :
        LET f == parsed_files[FileOf(SubmittedComments[c])] IN
        (OldNewHunkOnly(f) /\ SubmittedComments[c].body \in ModelTexts) =>
            /\ SubmittedComments[c].path = f.file_path
            /\ SubmittedComments[c].position = 2

-----------------------------------------------------------------------------
(* Claims about the findings of a run *)

\* The responses that are findings: a text that is neither empty nor the
\* sentinel.
RealFindings == ModelTexts \ {NO_ISSUES, ""}

\* The parsed file of a path.
FileAt(file_path) ==
    CHOOSE k \in 1..Len(parsed_files) : parsed_files[k].file_path = file_path

LoopEnded == RunEnded /\ file_idx > Len(parsed_files)

\* The file of the response has a changed line in a hunk.
Anchored(r) == AnchorHunks(parsed_files[FileAt(r.path)].hunks) # {}

\* No comment, collected or submitted, is for a file whose response is the
\* sentinel.
NoCommentForSentinel ==
    \A r \in 1..Len(review_bodies) :
        review_bodies[r].body = NO_ISSUES =>
            /\ \A c \in 1..Len(comments_to_post) :
                  comments_to_post[c].path # review_bodies[r].path
            /\ \A c \in 1..Len(SubmittedComments) :
                  SubmittedComments[c].path # review_bodies[r].path

\* When every response is the sentinel post_review is not called.
AllSentinelNoReview ==
    (LoopEnded /\ \A r \in 1..Len(review_bodies) :
                     review_bodies[r].body = NO_ISSUES) =>
        /\ CallsOf("post_review") = <<>>
        /\ log = <<"No comments to post">>

\* One comment was submitted, for the file of the response and with its text.
OneCommentFor(r) ==
    /\ Len(CallsOf("post_review")) = 1
    /\ Len(SubmittedComments) = 1
    /\ SubmittedComments[1].path = r.path
    /\ SubmittedComments[1].body = r.body

\* C19, as stated: a file whose response is "No issues found." gets no
\* comment; in a run over two files, one response the sentinel and the other
\* a finding, exactly one comment is submitted, for the other file; when
\* every response is the sentinel post_review is not called.
C19_SentinelContributesNothing ==
    /\ NoCommentForSentinel
    /\ (LoopEnded /\ Len(review_bodies) = 2) =>
          \A r \in 1..2 :
              ( /\ review_bodies[r].body = NO_ISSUES
                /\ review_bodies[3 - r].body \in RealFindings )
              => OneCommentFor(review_bodies[3 - r])
    /\ AllSentinelNoReview

\* C19, with the finding on a file that has a changed line: a file whose
\* response is "No issues found." gets no comment; in a run over two files,
\* one response the sentinel and the other a finding, exactly one comment is
\* submitted, for the other file, if that file has a line starting with "+"
\* or "-" in a hunk, and post_review is not called if it has none; when every
\* response is the sentinel post_review is not called.
C19_SentinelContributesNothingAnchored ==
    /\ NoCommentForSentinel
    /\ (LoopEnded /\ Len(review_bodies) = 2) =>
          \A r \in 1..2 :
              ( /\ review_bodies[r].body = NO_ISSUES
                /\ review_bodies[3 - r].body \in RealFindings )
              => IF Anchored(review_bodies[3 - r])
                 THEN OneCommentFor(review_bodies[3 - r])
                 ELSE /\ CallsOf("post_review") = <<>>
                      /\ log = <<"No comments to post">>
    /\ AllSentinelNoReview

\* A run over two files, the first response the sentinel and the second a
\* finding, has submitted one comment.
C19_Witness ==
    /\ LoopEnded
    /\ Len(review_bodies) = 2
    /\ review_bodies[1].body = NO_ISSUES
    /\ review_bodies[2].body \in RealFindings
    /\ Len(SubmittedComments) = 1
    /\ SubmittedComments[1].path = review_bodies[2].path

\* The response is kept as a finding: a text other than the sentinel, for a
\* file with a changed line in a hunk.
IsFinding(r) ==
    /\ r.body \notin {"", NO_ISSUES}
    /\ Anchored(r)

\* The findings collected so far, as path and body, in the order of the files.
CollectedFindings == SelectSeq(review_bodies, IsFinding)

\* C20: in every run post_review is called at most once, and only after every
\* parsed file has been passed; at the end of the run it has been called if
\* and only if a finding was collected; the call carries all collected
\* findings, in order, in one batch, and it is the last call of the run
\* whether it returns or raises.
C20_OneBatchedSubmission ==
    /\ Len(CallsOf("post_review")) <= 1
    /\ CallsOf("post_review") # <<>> =>
          /\ file_idx > Len(parsed_files)
          /\ Len(review_bodies) + Cardinality({k \in 1..Len(parsed_files) :
                ~Eligible(parsed_files[k].file_path)}) = Len(parsed_files)
          /\ calls[Len(calls)].fn = "post_review"
          /\ pc = "returned"
          /\ Len(SubmittedComments) = Len(CollectedFindings)
          /\ \A c \in 1..Len(SubmittedComments) :
                /\ SubmittedComments[c].path = CollectedFindings[c].path
                /\ SubmittedComments[c].body = CollectedFindings[c].body
    /\ pc = "returned" =>
          (CallsOf("post_review") # <<>> <=> CollectedFindings # <<>>)

-----------------------------------------------------------------------------
(* Claims about a failed model call *)

\* Formatting the template for the file raises: it names a field that
\* generate_review_comment gives no value for, or indexes the filename behind
\* its end.
Unformattable(template, filename) ==
    \E k \in 1..Len(template) :
        \/ template[k] = "{pr_title}"
        \/ template[k] = "{filename[12]}" /\ Len(PathChars(filename)) < 13

\* The call of generate_review_comment raised while assembling the prompt.
AssemblyRaisedIn(c) ==
    /\ c.fn = "generate_review_comment"
    /\ c.args[3] # None
    /\ Unformattable(c.args[3][1], c.args[2])

PromptAssemblyRaised == \E i \in 1..Len(calls) : AssemblyRaisedIn(calls[i])

\* The model call for the file of this response raised.
ModelFailed(r) == r.body = ai_review_failed(r.path)

\* C21: a file whose model call failed contributes no finding: no comment
\* for it is collected or submitted, and if it was the only file sent to the
\* model post_review is not called.
C21_FailedCallContributesNothing ==
    /\ \A r \in 1..Len(review_bodies) :
          ModelFailed(review_bodies[r]) =>
              /\ \A c \in 1..Len(comments_to_post) :
                    comments_to_post[c].path # review_bodies[r].path
              /\ \A c \in 1..Len(SubmittedComments) :
                    SubmittedComments[c].path # review_bodies[r].path
    /\ (LoopEnded /\ Len(review_bodies) = 1
          /\ ModelFailed(review_bodies[1])) => CallsOf("post_review") = <<>>

\* C22: a failed model call for one file does not end the run: the handler
\* does not end with an exception, and at the end of the run every eligible
\* file, those behind the failed one included, has been sent to the model
\* once, and the finding of every other file is in the comments handed to
\* post_review.
C22_FailureDoesNotAbort ==
    (\E r \in 1..Len(review_bodies) : ModelFailed(review_bodies[r])) =>
        /\ pc \in {"review_files", "returned"}
        /\ pc = "returned" =>
              /\ file_idx > Len(parsed_files)
              /\ \A k \in 1..Len(parsed_files) :
                    Eligible(parsed_files[k].file_path) =>
                        ModelCallsFor(parsed_files[k].file_path) = 1
              /\ \A r \in 1..Len(review_bodies) :
                    ( /\ ~ModelFailed(review_bodies[r])
                      /\ IsFinding(review_bodies[r]) ) =>
                        \E c \in 1..Len(SubmittedComments) :
                            /\ SubmittedComments[c].path =
                                  review_bodies[r].path
                            /\ SubmittedComments[c].body =
                                  review_bodies[r].body

\* ---------------------------------------------------------------------------
\* Claims about the outcome of the diff retrieval.

DiffFetched == diff_fetch # NoDiffFetch

ErrorOutcome == log = <<"Error during PR review">>

SkippedOutcome == log = <<"No diff found. Skipping review.">>

SuccessLogs == {"Review posted successfully.", "No comments to post"}

LogHas(msgs) == \E i \in 1..Len(log) : log[i] \in msgs

\* C23: when get_pr_diff raises, the run is over with one get_pr_diff call,
\* no parse_diff call, no model call and no post_review call, the exception
\* stays inside review_pull_request, and what is logged is the error and
\* neither the message of a skipped run nor one of a completed run.
C23_FailedFetchAbortsWithError ==
    (DiffFetched /\ diff_fetch.kind = "raised") =>
        /\ pc = "returned"
        /\ Len(CallsOf("get_pr_diff")) = 1
        /\ CallsOf("parse_diff") = <<>>
        /\ CallsOf("generate_review_comment") = <<>>
        /\ CallsOf("generate_content_async") = <<>>
        /\ CallsOf("post_review") = <<>>
        /\ ErrorOutcome
        /\ ~LogHas(SuccessLogs \cup {"No diff found. Skipping review."})

C23_Witness ==
    /\ DiffFetched
    /\ diff_fetch.kind = "raised"
    /\ pc = "returned"
    /\ ErrorOutcome

\* C24: when get_pr_diff returns the empty string, the run is over with no
\* parse_diff call, no model call and no post_review call, and what is logged
\* is the skipped run's message and no error.
C24_EmptyDiffSkipped ==
    (DiffFetched /\ diff_fetch.kind = "returned" /\ diff_fetch.text = <<>>) =>
        /\ pc = "returned"
        /\ Len(CallsOf("get_pr_diff")) = 1
        /\ CallsOf("parse_diff") = <<>>
        /\ CallsOf("generate_review_comment") = <<>>
        /\ CallsOf("generate_content_async") = <<>>
        /\ CallsOf("post_review") = <<>>
        /\ SkippedOutcome

C24_Witness ==
    /\ DiffFetched
    /\ diff_fetch.kind = "returned"
    /\ diff_fetch.text = <<>>
    /\ pc = "returned"
    /\ SkippedOutcome

\* ---------------------------------------------------------------------------
\* Claims about the commit of a review.

\* The commit the accepted event is about: the payload's head commit for a
\* pull_request event, the head commit of the looked-up pull request for a
\* comment command.
TargetCommit ==
    IF event.event_type = "pull_request" THEN event.sha ELSE pr_data.head.sha

TargetKnown == event.event_type = "pull_request" \/ pr_data # NoPrData

IndexOf(fn) == CHOOSE i \in 1..Len(calls) : calls[i].fn = fn

Called(fn) == \E i \in 1..Len(calls) : calls[i].fn = fn

\* C25: in a run, get_repo_config is asked for, and reads the config file
\* at, the event's target commit; review_pull_request is given that commit
\* and post_review's commit is that commit; get_repo_config is called, and
\* has returned, before get_pr_diff is called.
C25_OneHeadCommitThroughout ==
    /\ \A i \in 1..Len(calls) :
          /\ calls[i].fn = "get_repo_config" =>
                TargetKnown /\ calls[i].args[2] = TargetCommit
          /\ calls[i].fn = "get_file_content" =>
                TargetKnown /\ calls[i].args[3] = TargetCommit
          /\ calls[i].fn = "review_pull_request" =>
                TargetKnown /\ calls[i].args[3] = TargetCommit
          /\ calls[i].fn = "post_review" =>
                TargetKnown /\ calls[i].args[3] = TargetCommit
    /\ Called("get_pr_diff") =>
          /\ Called("get_repo_config")
          /\ Called("get_file_content")
          /\ IndexOf("get_repo_config") < IndexOf("get_pr_diff")
          /\ IndexOf("get_file_content") < IndexOf("get_pr_diff")
          /\ config_fetch # NoFetch
    /\ Len(CallsOf("get_repo_config")) <= 1
    /\ Called("post_review") => Called("get_repo_config")

\* A comment command whose looked-up head commit is not the one any payload
\* of the model carries, with the review submitted.
C25_Witness ==
    /\ event.event_type = "issue_comment"
    /\ pr_data # NoPrData
    /\ pr_data.head.sha = "def"
    /\ Called("post_review")
    /\ pc = "returned"

\* ---------------------------------------------------------------------------
\* Claims about a prompt that cannot be assembled.

\* C30: when generate_review_comment raises while it assembles the prompt of
\* a file, that call is the last call of the run: no model call for the file
\* and no post_review call follows, whatever was collected for the files
\* before; review_pull_request has logged the error and returned, and
\* handle_webhook_event has not ended with the exception.
C30_PromptFailurePostsNothing ==
    PromptAssemblyRaised =>
        /\ CallsOf("post_review") = <<>>
        /\ AssemblyRaisedIn(calls[Len(calls)])
        /\ \A i \in 1..(Len(calls) - 1) : ~AssemblyRaisedIn(calls[i])
        /\ pc = "returned"
        /\ log = <<"Error during PR review">>

\* The prompt of the second file raised after a finding had been collected
\* for the first file.
C30_Witness ==
    /\ PromptAssemblyRaised
    /\ pc = "returned"
    /\ Len(parsed_files) = 2
    /\ file_idx = 2
    /\ Len(comments_to_post) = 1
    /\ review_bodies[1].body \in RealFindings
    /\ log = <<"Error during PR review">>

\* ---------------------------------------------------------------------------
\* Claims about the webhook endpoint.

\* The header is present and equals "sha256=" + HMAC-SHA256(secret, body).
SignatureMatches ==
    /\ request.signature # <<>>
    /\ request.signature[1] =
          "sha256=" \o hexdigest(GITHUB_WEBHOOK_SECRET, request.body)

\* The body is a JSON document.
JsonBody == \E e \in Events : request.body = dumps(PayloadOf(e))

Responded == response # NoResponse

HandlerNotCalled == pc = "idle" /\ calls = <<>> /\ log = <<>>

\* C26: a request without the header, or with a header that is not the
\* signature of its body, is answered with an error; no background task is
\* ever added for it and handle_webhook_event is never called.
C26_BadSignatureRejected ==
    ~SignatureMatches =>
        /\ background_tasks = <<>>
        /\ HandlerNotCalled
        /\ response # Accepted
        /\ Responded => response.status_code \in {403, 500}

\* A request that carries the signature of another body was answered 403.
C26_Witness ==
    /\ ~SignatureMatches
    /\ request.signature =
          <<"sha256=" \o hexdigest(GITHUB_WEBHOOK_SECRET, "{}")>>
    /\ response.status_code = 403
    /\ response.content = "Request signature does not match!"

\* The task of the request is waiting, or it is the event being handled.
HandedOver ==
    \/ /\ background_tasks =
             << Task("handle_webhook_event",
                     <<request.event_type, json(request.body).value>>) >>
       /\ HandlerNotCalled
    \/ /\ background_tasks = <<>>
       /\ pc # "idle"
       /\ event = EventOf(request.event_type, json(request.body).value)

\* C27, as stated: every request that passes the signature check is answered
\* with the acknowledgment and handed to a background task.
C27_VerifiedRequestAccepted ==
    (SignatureMatches /\ Responded) => (response = Accepted /\ HandedOver)

\* C27, as the code has it: a request that passes the signature check and
\* whose body is a JSON document is answered with the acknowledgment, and
\* with nothing else whatever the handler does later; before the answer
\* nothing of the review has been done, with the answer the event is handed
\* to one background task, and the handler runs on that event only.  A
\* request that passes the signature check and whose body is not a JSON
\* document is answered with a server error; no task is added for it and the
\* handler is never called.
C27_VerifiedJsonRequestAccepted ==
    /\ (SignatureMatches /\ JsonBody) =>
          /\ ~Responded => (background_tasks = <<>> /\ HandlerNotCalled)
          /\ Responded => (response = Accepted /\ HandedOver)
    /\ (SignatureMatches /\ ~JsonBody) =>
          /\ background_tasks = <<>>
          /\ HandlerNotCalled
          /\ Responded => response.status_code = 500

\* The acknowledgment stands while the review has ended with an error.
C27_Witness ==
    /\ SignatureMatches
    /\ response = Accepted
    /\ pc = "returned"
    /\ log = <<"Error during PR review">>
    /\ background_tasks = <<>>

\* ---------------------------------------------------------------------------
\* Claims about retry_on_failure.

AllRaised ==
    \A i \in 1..Len(invocations) : invocations[i].kind = "raise"

\* C28: with max_attempts >= 1 the wrapped function is called at most
\* max_attempts times and never again after a call returned; the wrapper
\* returns what the first call that returned gave; when max_attempts calls
\* have raised the wrapper raises the exception of the last call, and it
\* raises an exception it catches only after max_attempts calls.
C28_RetryAtMostN ==
    max_attempts >= 1 =>
        /\ Len(invocations) <= max_attempts
        /\ \A i \in 1..(Len(invocations) - 1) : caught(invocations[i])
        /\ wrapper_result.kind = "return" =>
              /\ invocations # <<>>
              /\ invocations[Len(invocations)] = wrapper_result
        /\ wrapper_result.kind = "raise" =>
              /\ invocations # <<>>
              /\ invocations[Len(invocations)] = wrapper_result
              /\ AllRaised
              /\ caught(wrapper_result) => Len(invocations) = max_attempts
        /\ (Len(invocations) = max_attempts /\ AllRaised) =>
              /\ attempt \notin range(max_attempts) \/ wrapper_result # Running
              /\ wrapper_result # Running =>
                    wrapper_result = invocations[max_attempts]
        /\ Len(sleeps) <= max_attempts - 1

\* Three calls raised, the last with another exception than the one before,
\* and the wrapper raised the last one.
C28_Witness ==
    /\ max_attempts = 3
    /\ Len(invocations) = 3
    /\ AllRaised
    /\ invocations[2].value # invocations[3].value
    /\ wrapper_result = invocations[3]
    /\ sleeps = <<1, 2>>

\* ---------------------------------------------------------------------------
\* Claims about the size budget of the review prompt.

\* The per-file sections among the parts: every part but the note.
Sections == SelectSeq(prompt_parts, LAMBDA part : part # <<OMITTED_NOTE>>)

RECURSIVE SumLen(_)
SumLen(parts) ==
    IF parts = <<>> THEN 0 ELSE len(Head(parts)) + SumLen(Tail(parts))

\* How many of the files are among the first MAX_FILES_PER_REVIEW.
FilesInReach == Min(Len(pr_files), app_config.MAX_FILES_PER_REVIEW)

SectionOf(k) == file_prompt(pr_files[k], app_config, prompt_pr_data)

\* C29: the sections in the prompt are those of the files 1..k, in order,
\* for a k within the first MAX_FILES_PER_REVIEW files; their lengths sum to
\* total_length, which is at most MAX_PROMPT_LENGTH; when the prompt is
\* joined, k falls short of the files in reach only if the section of file
\* k + 1 would have brought the total over MAX_PROMPT_LENGTH, and then no
\* section of a later file is in the prompt, whether it would fit or not.
C29_SectionsArePrefixWithinBudget ==
    /\ Len(Sections) <= FilesInReach
    /\ \A k \in 1..Len(Sections) :
          /\ prompt_parts[k] = Sections[k]
          /\ Sections[k] = SectionOf(k)
    /\ SumLen(Sections) = total_length
    /\ SumLen(Sections) <= app_config.MAX_PROMPT_LENGTH
    /\ prompt_pc = "joined" =>
          /\ diffs_text = Flatten(prompt_parts)
          /\ IF Len(Sections) < FilesInReach
             THEN /\ SumLen(Sections) + len(SectionOf(Len(Sections) + 1))
                       > app_config.MAX_PROMPT_LENGTH
                  /\ prompt_parts = Append(Sections, <<OMITTED_NOTE>>)
             ELSE prompt_parts = Sections

\* The second of three files did not fit, and the third, which would have
\* fitted, is not in the prompt either.
C29_Witness ==
    /\ prompt_pc = "joined"
    /\ Len(pr_files) = 3
    /\ app_config.MAX_FILES_PER_REVIEW = 3
    /\ Len(Sections) = 1
    /\ total_length + len(SectionOf(3)) <= app_config.MAX_PROMPT_LENGTH

=============================================================================
